---- MODULE Spec2Model ----
(***************************************************************************)
(* SAT knowledge base retrieval: the index life cycle of SATKnowledgeRAG   *)
(* (construction, rebuild_index), search, get_relevant_context and the     *)
(* executor tool wrapping search.                                          *)
(*                                                                         *)
(* A Python str is a sequence of one-character strings.  The Chroma        *)
(* collection and the Gemini embedding call are the program's external     *)
(* collaborators: they are modelled by what the code relies on.            *)
(***************************************************************************)
EXTENDS Integers, Sequences, FiniteSets, TLC

VARIABLES store, coll, gen, inst, last, ret, edits, pc, mem

vars == <<store, coll, gen, inst, last, ret, edits, pc, mem>>

(***************************************************************************)
(* Bounds of the model.                                                    *)
(***************************************************************************)
MaxBuilds == 3
MaxEdits == 1
MaxCtxLen == 420
MaxPlan == 2
MaxStores == 2
MaxClears == 2
MaxExprLen == 3

(***************************************************************************)
(* Program constants.                                                      *)
(***************************************************************************)
EmbeddingDim == 768
ProviderDim == 768
ContextBuffer == 10
MinAvailable == 100
ContextResults == 3

(***************************************************************************)
(* String helpers (Python str methods used by the code).                   *)
(***************************************************************************)
S_math == <<"m", "a", "t", "h">>
S_english == <<"e", "n", "g", "l", "i", "s", "h">>
S_all == <<"a", "l", "l">>
S_science == <<"s", "c", "i", "e", "n", "c", "e">>
S_root == <<".", ".", "/", "s", "a", "t", "K", "n", "o", "w", "l", "e", "d", "g", "e">>
S_overview_md == <<"-", "o", "v", "e", "r", "v", "i", "e", "w", ".", "m", "d">>
S_study_notes_md == <<"-", "s", "t", "u", "d", "y", "-", "n", "o", "t", "e", "s", ".", "m", "d">>
S_Overview == <<" ", "O", "v", "e", "r", "v", "i", "e", "w">>
S_StudyNotes == <<" ", "S", "t", "u", "d", "y", " ", "N", "o", "t", "e", "s">>
S_ellipsis == <<".", ".", ".">>
S_separator == <<"\n", "\n", "-", "-", "-", "\n", "\n">>
S_sentinel == <<"N", "o", " ", "r", "e", "l", "e", "v", "a", "n", "t", " ", "i", "n", "f", "o", "r", "m", "a", "t", "i", "o", "n", " ", "f", "o", "u", "n", "d", " ", "i", "n", " ", "t", "h", "e", " ", "k", "n", "o", "w", "l", "e", "d", "g", "e", " ", "b", "a", "s", "e", ".">>
S_Unknown == <<"U", "n", "k", "n", "o", "w", "n">>
S_lower == <<"a", "b", "c", "d", "e", "f", "g", "h", "i", "j", "k", "l", "m", "n", "o", "p", "q", "r", "s", "t", "u", "v", "w", "x", "y", "z">>
S_upper == <<"A", "B", "C", "D", "E", "F", "G", "H", "I", "J", "K", "L", "M", "N", "O", "P", "Q", "R", "S", "T", "U", "V", "W", "X", "Y", "Z">>

\* str.upper() and str.lower() of one character
UpperOf == [c \in {S_lower[i] : i \in 1..26} |->
               S_upper[CHOOSE i \in 1..26 : S_lower[i] = c]]

LowerOf == [c \in {S_upper[i] : i \in 1..26} |->
               S_lower[CHOOSE i \in 1..26 : S_upper[i] = c]]

ToUpper(c) == IF c \in DOMAIN UpperOf THEN UpperOf[c] ELSE c

ToLower(c) == IF c \in DOMAIN LowerOf THEN LowerOf[c] ELSE c

IsAlpha(c) == c \in DOMAIN UpperOf \/ c \in DOMAIN LowerOf

\* str.capitalize(): first character upper-cased, the rest lower-cased
Capitalize(s) == [i \in 1..Len(s) |-> IF i = 1 THEN ToUpper(s[i]) ELSE ToLower(s[i])]

\* str.title(): a letter that follows a non-letter is upper-cased, any other lower-cased
TitleCase(s) ==
    [i \in 1..Len(s) |-> IF i = 1 \/ ~IsAlpha(s[i - 1]) THEN ToUpper(s[i])
                                                        ELSE ToLower(s[i])]

\* str.replace(a, b) for one-character a and b
Replace(s, a, b) == [i \in 1..Len(s) |-> IF s[i] = a THEN b ELSE s[i]]

EndsWith(s, suf) ==
    Len(s) >= Len(suf) /\ SubSeq(s, Len(s) - Len(suf) + 1, Len(s)) = suf

IsSpace(c) == c \in {" ", "\t", "\n", "\r"}

RECURSIVE LStrip(_)
LStrip(s) == IF s # <<>> /\ IsSpace(Head(s)) THEN LStrip(Tail(s)) ELSE s

RECURSIVE RStrip(_)
RStrip(s) ==
    IF s # <<>> /\ IsSpace(s[Len(s)]) THEN RStrip(SubSeq(s, 1, Len(s) - 1)) ELSE s

\* str.strip()
Strip(s) == RStrip(LStrip(s))

\* position of the last "." of a file name that starts a suffix, 0 when none
LastDot(name) ==
    LET D == {i \in 2..Len(name) : name[i] = "."}
    IN  IF D = {} THEN 0 ELSE CHOOSE i \in D : \A j \in D : j <= i

\* pathlib: Path.suffix and Path.stem
PathSuffix(name) ==
    IF LastDot(name) = 0 THEN <<>> ELSE SubSeq(name, LastDot(name), Len(name))

PathStem(name) ==
    IF LastDot(name) = 0 THEN name ELSE SubSeq(name, 1, LastDot(name) - 1)

RECURSIVE JoinPath(_)
\* str(a / b / c)
JoinPath(segs) ==
    IF Len(segs) = 1 THEN segs[1]
    ELSE segs[1] \o <<"/">> \o JoinPath(Tail(segs))

Min(a, b) == IF a <= b THEN a ELSE b

(***************************************************************************)
(* The DocumentStore: a directory tree below knowledge_base_path.  Slots   *)
(* are the file paths the model considers, in the order iterdir() yields   *)
(* them; store[i] says whether the file exists and what it holds.          *)
(***************************************************************************)
S_algebra == <<"a", "l", "g", "e", "b", "r", "a">>
S_linear_functions == <<"l", "i", "n", "e", "a", "r", "-", "f", "u", "n", "c", "t", "i", "o", "n", "s">>
S_grammar == <<"g", "r", "a", "m", "m", "a", "r">>

Slots ==
    << [dir |-> <<S_math>>, name |-> S_math \o S_overview_md],
       [dir |-> <<S_math>>, name |-> <<"f", "o", "r", "m", "u", "l", "a", "s", ".", "m", "d">>],
       [dir |-> <<S_math, S_algebra>>, name |-> S_algebra \o S_study_notes_md],
       [dir |-> <<S_math, S_algebra, S_linear_functions>>,
        name |-> <<"e", "x", "a", "m", "p", "l", "e", "s", ".", "m", "d">>],
       [dir |-> <<S_english>>, name |-> S_english \o S_study_notes_md],
       [dir |-> <<S_english, S_grammar>>,
        name |-> <<"n", "o", "t", "e", "s", ".", "t", "x", "t">>] >>

SlotIds == 1..Len(Slots)

FileAbsent == [kind |-> "absent"]

\* a file whose bytes are not valid UTF-8: open(..., encoding='utf-8').read() raises
Undecodable == [kind |-> "undecodable"]

TextFile(t) == [kind |-> "text", text |-> t]

\* a text of n characters, words of six letters
Text(n, k) ==
    [i \in 1..n |-> IF i % 7 = 0 THEN " " ELSE S_lower[((i * k) % 26) + 1]]

\* what an editing tool may leave in each file
SlotContents(i) ==
    CASE i = 1 -> {FileAbsent, TextFile(Text(9, 3))}
      [] i = 2 -> {FileAbsent, TextFile(Text(6, 5))}
      [] i = 3 -> {TextFile(<<" ", "\n">>), TextFile(Text(7, 7))}
      [] i = 4 -> {FileAbsent, Undecodable, TextFile(Text(10, 11))}
      [] i = 5 -> {FileAbsent, TextFile(<<>>), TextFile(Text(12, 9))}
      [] OTHER -> {FileAbsent, TextFile(Text(4, 1))}

\* study notes as long as the context budget of get_relevant_context
LongContents(i) ==
    CASE i = 1 -> {FileAbsent, TextFile(Text(20, 3))}
      [] i = 2 -> {FileAbsent}
      [] i = 3 -> {TextFile(Text(150, 7))}
      [] i = 4 -> {TextFile(Text(101, 11))}
      [] i = 5 -> {FileAbsent, TextFile(Text(131, 9)), TextFile(Text(30, 9))}
      [] OTHER -> {FileAbsent}

Stores ==
    {<<a, b, c, d, e, f>> : a \in SlotContents(1), b \in SlotContents(2),
                            c \in SlotContents(3), d \in SlotContents(4),
                            e \in SlotContents(5), f \in SlotContents(6)}

LongStores ==
    {<<a, b, c, d, e, f>> : a \in LongContents(1), b \in LongContents(2),
                            c \in LongContents(3), d \in LongContents(4),
                            e \in LongContents(5), f \in LongContents(6)}

\* Path.exists() / is_file() of a slot's file
FileExists(st, i) == st[i].kind # "absent"

\* the file or directory of slot i lies in directory d or below it
Under(st, i, d) ==
    /\ FileExists(st, i)
    /\ Len(Slots[i].dir) >= Len(d)
    /\ SubSeq(Slots[i].dir, 1, Len(d)) = d

\* Path.exists() of a directory: it exists when it holds a file
DirExists(st, d) == \E i \in SlotIds : Under(st, i, d)

ChildName(i, d) ==
    IF Slots[i].dir = d THEN Slots[i].name ELSE Slots[i].dir[Len(d) + 1]

RECURSIVE IterDirFrom(_, _, _, _)
IterDirFrom(st, d, i, seen) ==
    IF i > Len(Slots) THEN <<>>
    ELSE IF ~Under(st, i, d) \/ ChildName(i, d) \in seen
         THEN IterDirFrom(st, d, i + 1, seen)
         ELSE << [name |-> ChildName(i, d),
                  is_file |-> Slots[i].dir = d,
                  slot |-> i] >>
              \o IterDirFrom(st, d, i + 1, seen \cup {ChildName(i, d)})

\* Path.iterdir(): the entries of directory d, files and subdirectories
IterDir(st, d) == IterDirFrom(st, d, 1, {})

\* the slot of the file called name in directory d, 0 when there is none
FileNamed(st, d, name) ==
    LET I == {i \in SlotIds : FileExists(st, i) /\ Slots[i].dir = d /\ Slots[i].name = name}
    IN  IF I = {} THEN 0 ELSE CHOOSE i \in I : TRUE

\* _read_markdown_file: the text, "" when reading raises
ReadMarkdownFile(f) == IF f.kind = "text" THEN f.text ELSE <<>>

FilePath(d, name) == JoinPath(<<S_root>> \o d \o <<name>>)

\* an id derived from the position of the document alone
PositionId(g, n) == <<0, n>>

\* str(uuid.uuid4()): the n-th id drawn during build g, never drawn before
Uuid4(g, n) == <<g, n>>

NoDocs == [documents |-> <<>>, metadatas |-> <<>>, ids |-> <<>>]

\* the metadata of a document is appended only for the first document
AppendDocOneMeta(acc, content, meta, g) ==
    [documents |-> Append(acc.documents, content),
     metadatas |-> IF acc.metadatas = <<>> THEN <<meta>> ELSE acc.metadatas,
     ids |-> Append(acc.ids, Uuid4(g, Len(acc.ids) + 1))]

\* documents.append(content); metadatas.append(meta); ids.append(str(uuid.uuid4()))
AppendDoc(acc, content, meta, g) ==
    [documents |-> Append(acc.documents, content),
     metadatas |-> Append(acc.metadatas, meta),
     ids |-> Append(acc.ids, Uuid4(g, Len(acc.ids) + 1))]

DocType(level, name) ==
    IF EndsWith(name, S_overview_md) THEN level \o <<"_", "o", "v", "e", "r", "v", "i", "e", "w">>
    ELSE IF EndsWith(name, S_study_notes_md) THEN level \o <<"_", "n", "o", "t", "e", "s">>
    ELSE level \o <<"_", "c", "o", "n", "t", "e", "n", "t">>

DocTitle(dirname, name) ==
    LET base == TitleCase(Replace(dirname, "-", " "))
    IN  IF EndsWith(name, S_overview_md) THEN base \o S_Overview
        ELSE IF EndsWith(name, S_study_notes_md) THEN base \o S_StudyNotes
        ELSE base \o <<" ", "-", " ">> \o PathStem(name)

\* one file of a subtopic directory
SubtopicFile(subject, topic, subtopic, path, e, acc, st, g) ==
    IF e.is_file /\ PathSuffix(e.name) = <<".", "m", "d">>
    THEN LET content == ReadMarkdownFile(st[e.slot])
         IN  IF Strip(content) # <<>>
             THEN AppendDoc(acc, content,
                            [subject |-> subject, topic |-> topic, subtopic |-> subtopic,
                             type |-> DocType(<<"s", "u", "b", "t", "o", "p", "i", "c">>, e.name),
                             title |-> DocTitle(subtopic, e.name),
                             file_path |-> FilePath(path, e.name)], g)
             ELSE acc
    ELSE acc

RECURSIVE SubtopicEntries(_, _, _, _, _, _, _, _)
SubtopicEntries(subject, topic, subtopic, path, es, acc, st, g) ==
    IF es = <<>> THEN acc
    ELSE SubtopicEntries(subject, topic, subtopic, path, Tail(es),
             SubtopicFile(subject, topic, subtopic, path, Head(es), acc, st, g), st, g)

ProcessSubtopicDirectory(subject, topic, subtopic, path, acc, st, g) ==
    SubtopicEntries(subject, topic, subtopic, path, IterDir(st, path), acc, st, g)

\* one entry of a topic directory: a markdown file, or a subtopic directory
TopicEntry(subject, topic, path, e, acc, st, g) ==
    IF e.is_file /\ PathSuffix(e.name) = <<".", "m", "d">>
    THEN LET content == ReadMarkdownFile(st[e.slot])
         IN  IF Strip(content) # <<>>
             THEN AppendDoc(acc, content,
                            [subject |-> subject, topic |-> topic,
                             type |-> DocType(<<"t", "o", "p", "i", "c">>, e.name),
                             title |-> DocTitle(topic, e.name),
                             file_path |-> FilePath(path, e.name)], g)
             ELSE acc
    ELSE IF ~e.is_file
         THEN ProcessSubtopicDirectory(subject, topic, e.name, path \o <<e.name>>, acc, st, g)
         ELSE acc

RECURSIVE TopicEntries(_, _, _, _, _, _, _)
TopicEntries(subject, topic, path, es, acc, st, g) ==
    IF es = <<>> THEN acc
    ELSE TopicEntries(subject, topic, path, Tail(es),
             TopicEntry(subject, topic, path, Head(es), acc, st, g), st, g)

ProcessTopicDirectory(subject, topic, path, acc, st, g) ==
    TopicEntries(subject, topic, path, IterDir(st, path), acc, st, g)

\* the subject's own file called <subject><suffix>, when it exists and is not blank
SubjectFile(subject, path, suffix, type, label, acc, st, g) ==
    LET i == FileNamed(st, path, subject \o suffix)
    IN  IF i # 0 /\ Strip(ReadMarkdownFile(st[i])) # <<>>
        THEN AppendDoc(acc, ReadMarkdownFile(st[i]),
                       [subject |-> subject, type |-> type,
                        title |-> Capitalize(subject) \o label,
                        file_path |-> FilePath(path, subject \o suffix)], g)
        ELSE acc

RECURSIVE SubjectTopics(_, _, _, _, _, _)
SubjectTopics(subject, path, es, acc, st, g) ==
    IF es = <<>> THEN acc
    ELSE SubjectTopics(subject, path, Tail(es),
             IF ~Head(es).is_file
             THEN ProcessTopicDirectory(subject, Head(es).name,
                                        path \o <<Head(es).name>>, acc, st, g)
             ELSE acc, st, g)

ProcessSubjectDirectory(subject, path, acc, st, g) ==
    LET a1 == SubjectFile(subject, path, S_overview_md,
                          <<"s", "u", "b", "j", "e", "c", "t", "_", "o", "v", "e", "r", "v", "i", "e", "w">>,
                          S_Overview, acc, st, g)
        a2 == SubjectFile(subject, path, S_study_notes_md,
                          <<"s", "u", "b", "j", "e", "c", "t", "_", "n", "o", "t", "e", "s">>,
                          S_StudyNotes, a1, st, g)
    IN  SubjectTopics(subject, path, IterDir(st, path), a2, st, g)

RECURSIVE CollectSubjects(_, _, _, _)
CollectSubjects(subjects, acc, st, g) ==
    IF subjects = <<>> THEN acc
    ELSE CollectSubjects(Tail(subjects),
             IF DirExists(st, <<Head(subjects)>>)
             THEN ProcessSubjectDirectory(Head(subjects), <<Head(subjects)>>, acc, st, g)
             ELSE acc, st, g)

\* the documents, metadatas and ids _build_knowledge_index collects
CollectDocuments(st, g) == CollectSubjects(<<S_math, S_english>>, NoDocs, st, g)

(***************************************************************************)
(* The EmbeddingProvider.  A vector is written [dim, x]: dim components,   *)
(* the first one x and the others 0.                                       *)
(***************************************************************************)
\* client.models.embed_content(model='text-embedding-004', contents=text)
EmbedContent(text) == [dim |-> ProviderDim, x |-> 1 + (Len(text) % 4)]

\* a placeholder of another length than the provider's vectors
ShortZeroVector == [dim |-> EmbeddingDim \div 2, x |-> 0]

\* [0.0] * 768
ZeroVector == [dim |-> EmbeddingDim, x |-> 0]

\* one failing call degrades every document to the placeholder
AllZeroOnFailure(texts, failing) ==
    [i \in 1..Len(texts) |-> IF failing # {} THEN ZeroVector ELSE EmbedContent(texts[i])]

\* _generate_embeddings: failing holds the positions whose embedding call raises
GenerateEmbeddings(texts, failing) ==
    [i \in 1..Len(texts) |-> IF i \in failing THEN ZeroVector ELSE EmbedContent(texts[i])]

\* the embedding calls _generate_embeddings issues, in order
EmbeddingCalls(texts, failing) ==
    [i \in 1..Len(texts) |-> [fn |-> "embed_content", arg |-> i, ok |-> i \notin failing]]

\* _generate_query_embedding
GenerateQueryEmbedding(query, fails) ==
    IF fails THEN ZeroVector ELSE EmbedContent(query)

(***************************************************************************)
(* The VectorIndex (a Chroma collection): items in insertion order.        *)
(***************************************************************************)
NoCollection == [exists |-> FALSE, uid |-> 0, items |-> <<>>]

Range(f) == {f[i] : i \in DOMAIN f}

\* collection.add(documents, metadatas, embeddings, ids): all or nothing
CollectionAdd(items, documents, metadatas, embeddings, ids, fails) ==
    LET valid == /\ ~fails
                 /\ Len(documents) = Len(ids)
                 /\ Len(metadatas) = Len(ids)
                 /\ Len(embeddings) = Len(ids)
                 /\ Cardinality(Range(ids)) = Len(ids)
                 /\ \A it \in Range(items) : it.id \notin Range(ids)
                 /\ \A e \in Range(embeddings) :
                        /\ e.dim = embeddings[1].dim
                        /\ \A it \in Range(items) : it.embedding.dim = e.dim
    IN  [ok |-> valid,
         items |-> IF valid
                   THEN items \o [i \in 1..Len(ids) |->
                                     [id |-> ids[i], document |-> documents[i],
                                      metadata |-> metadatas[i], embedding |-> embeddings[i]]]
                   ELSE items]

\* the collection's distance between a query vector and a stored vector
Distance(q, v) == (q.x - v.x) * (q.x - v.x)

\* a where clause is a mapping of metadata keys to required values; None is the empty one
Matches(metadata, where) ==
    \A k \in DOMAIN where : k \in DOMAIN metadata /\ metadata[k] = where[k]

RECURSIVE InsertByDistance(_, _, _)
InsertByDistance(it, ranked, q) ==
    IF ranked = <<>> THEN <<it>>
    ELSE IF Distance(q, it.embedding) < Distance(q, Head(ranked).embedding)
         THEN <<it>> \o ranked
         ELSE <<Head(ranked)>> \o InsertByDistance(it, Tail(ranked), q)

RECURSIVE RankByDistance(_, _)
\* nearest first, items at equal distance in insertion order
RankByDistance(items, q) ==
    IF items = <<>> THEN <<>>
    ELSE InsertByDistance(items[Len(items)],
                          RankByDistance(SubSeq(items, 1, Len(items) - 1), q), q)

\* collection.query(query_embeddings=[q], n_results=n, where=where): the first
\* (and only) row of documents, metadatas and distances
CollectionQuery(items, q, n, where) ==
    LET hits == SubSeq(RankByDistance(SelectSeq(items, LAMBDA it : Matches(it.metadata, where)), q),
                       1, Min(n, Len(SelectSeq(items, LAMBDA it : Matches(it.metadata, where)))))
    IN  [ok |-> n > 0 /\ \A it \in Range(items) : it.embedding.dim = q.dim,
         documents |-> [i \in 1..Len(hits) |-> hits[i].document],
         metadatas |-> [i \in 1..Len(hits) |-> hits[i].metadata],
         distances |-> [i \in 1..Len(hits) |-> Distance(q, hits[i].embedding)]]

(***************************************************************************)
(* SATKnowledgeRAG.                                                        *)
(***************************************************************************)
\* CollectDocuments, tabulated once for every DocumentStore and build of the model
Collected ==
    [st \in Stores \cup LongStores |->
        [g \in 1..(MaxBuilds + 1) |-> CollectDocuments(st, g)]]

\* a failed bulk insert is tried once more and the failure is not reported
BuildRetryingAdd(items, st, g, failing, addFails) ==
    LET docs == Collected[st][g]
    IN  IF docs.documents # <<>>
        THEN LET embeddings == GenerateEmbeddings(docs.documents, failing)
                 first == CollectionAdd(items, docs.documents, docs.metadatas,
                                        embeddings, docs.ids, addFails)
                 again == CollectionAdd(items, docs.documents, docs.metadatas,
                                        embeddings, docs.ids, FALSE)
             IN  [raised |-> FALSE,
                  items |-> again.items,
                  calls |-> EmbeddingCalls(docs.documents, failing)
                            \o << [fn |-> "add", arg |-> Len(docs.ids), ok |-> first.ok] >>
                            \o (IF first.ok THEN <<>>
                                ELSE << [fn |-> "add", arg |-> Len(docs.ids), ok |-> again.ok] >>)]
        ELSE [raised |-> FALSE, items |-> items, calls |-> <<>>]

\* the bulk insert is issued even when no document was collected, and the
\* collection refuses the empty batch
BuildAlwaysAdds(items, st, g, failing, addFails) ==
    LET docs == Collected[st][g]
        embeddings == GenerateEmbeddings(docs.documents, failing)
        added == CollectionAdd(items, docs.documents, docs.metadatas, embeddings,
                               docs.ids, addFails \/ docs.documents = <<>>)
    IN  [raised |-> ~added.ok,
         items |-> added.items,
         calls |-> EmbeddingCalls(docs.documents, failing)
                   \o << [fn |-> "add", arg |-> Len(docs.ids), ok |-> added.ok] >>]

\* every document is inserted as soon as its embedding is there
BuildStreaming(items, st, g, failing, addFails) ==
    LET docs == Collected[st][g]
        n == Len(docs.documents)
        embeddings == GenerateEmbeddings(docs.documents, failing)
        added == CollectionAdd(items, docs.documents, docs.metadatas,
                               embeddings, docs.ids, addFails)
    IN  IF n > 0
        THEN [raised |-> ~added.ok,
              items |-> added.items,
              calls |-> [j \in 1..(2 * n) |->
                            IF j % 2 = 1
                            THEN [fn |-> "embed_content", arg |-> (j + 1) \div 2,
                                  ok |-> ((j + 1) \div 2) \notin failing]
                            ELSE [fn |-> "add", arg |-> 1, ok |-> added.ok]]]
        ELSE [raised |-> FALSE, items |-> items, calls |-> <<>>]

\* _build_knowledge_index on a collection holding items
BuildKnowledgeIndex(items, st, g, failing, addFails) ==
    LET docs == Collected[st][g]
    IN  IF docs.documents # <<>>
        THEN LET embeddings == GenerateEmbeddings(docs.documents, failing)
                 added == CollectionAdd(items, docs.documents, docs.metadatas,
                                        embeddings, docs.ids, addFails)
             IN  [raised |-> ~added.ok,
                  items |-> added.items,
                  calls |-> EmbeddingCalls(docs.documents, failing)
                            \o << [fn |-> "add", arg |-> Len(docs.ids), ok |-> added.ok] >>]
        ELSE [raised |-> FALSE, items |-> items, calls |-> <<>>]

\* the filter is never built
NoWhereClause(subject_filter) == <<>>

\* where_clause of search
WhereClause(subject_filter) ==
    IF subject_filter \in {S_math, S_english}
    THEN [subject |-> subject_filter]
    ELSE <<>>

\* dict.get(key, 'Unknown')
MetaGet(metadata, key) ==
    IF key \in DOMAIN metadata THEN metadata[key] ELSE S_Unknown

\* the hits are listed farthest first
FormatResultsReversed(res) ==
    [i \in 1..Len(res.documents) |->
        LET j == Len(res.documents) + 1 - i
        IN  [content |-> res.documents[j],
             metadata |-> res.metadatas[j],
             similarity_score |-> 1 - res.distances[j],
             title |-> MetaGet(res.metadatas[j], "title"),
             subject |-> MetaGet(res.metadatas[j], "subject"),
             type |-> MetaGet(res.metadatas[j], "type"),
             file_path |-> MetaGet(res.metadatas[j], "file_path")]]

\* the distance itself is reported as the score
FormatResultsRawDistance(res) ==
    [i \in 1..Len(res.documents) |->
        [content |-> res.documents[i],
         metadata |-> res.metadatas[i],
         similarity_score |-> res.distances[i],
         title |-> MetaGet(res.metadatas[i], "title"),
         subject |-> MetaGet(res.metadatas[i], "subject"),
         type |-> MetaGet(res.metadatas[i], "type"),
         file_path |-> MetaGet(res.metadatas[i], "file_path")]]

\* formatted_results of search
FormatResults(res) ==
    [i \in 1..Len(res.documents) |->
        [content |-> res.documents[i],
         metadata |-> res.metadatas[i],
         similarity_score |-> 1 - res.distances[i],
         title |-> MetaGet(res.metadatas[i], "title"),
         subject |-> MetaGet(res.metadatas[i], "subject"),
         type |-> MetaGet(res.metadatas[i], "type"),
         file_path |-> MetaGet(res.metadatas[i], "file_path")]]

\* a failed query embedding ends the search with no results
SearchResultsEmbedFatal(handle_ok, items, query, subject_filter, max_results, qfails) ==
    LET res == CollectionQuery(items, GenerateQueryEmbedding(query, qfails), max_results,
                               WhereClause(subject_filter))
    IN  IF handle_ok /\ res.ok /\ ~qfails
        THEN [raised |-> FALSE, index_error |-> FALSE, results |-> FormatResults(res)]
        ELSE [raised |-> FALSE, index_error |-> ~(handle_ok /\ res.ok), results |-> <<>>]

\* search: handle_ok says the instance's collection handle still names the
\* stored collection; when it does not, collection.query raises
SearchResults(handle_ok, items, query, subject_filter, max_results, qfails) ==
    LET where_clause == WhereClause(subject_filter)
        query_embedding == GenerateQueryEmbedding(query, qfails)
        res == CollectionQuery(items, query_embedding, max_results, where_clause)
    IN  IF handle_ok /\ res.ok
        THEN [raised |-> FALSE, index_error |-> FALSE, results |-> FormatResults(res)]
        ELSE [raised |-> FALSE, index_error |-> TRUE, results |-> <<>>]

\* source_info of get_relevant_context
SourceInfo(result) ==
    <<"S", "o", "u", "r", "c", "e", ":", " ">> \o result.title \o <<" ", "(">>
    \o result.subject \o <<",", " ">> \o result.type \o <<")">>

\* the content is never cut
NeverTruncate(content, available) == content

\* the content is cut as soon as it fills the available length
TruncateAtFit(content, available) ==
    IF Len(content) >= available
    THEN SubSeq(content, 1, available) \o S_ellipsis
    ELSE content

\* the cut is marked by a longer notice
TruncateWithNotice(content, available) ==
    IF Len(content) > available
    THEN SubSeq(content, 1, available)
         \o <<" ", "[", "t", "r", "u", "n", "c", "a", "t", "e", "d", "]">>
    ELSE content

\* the cut forgets that the buffer was set aside
TruncateIntoBuffer(content, available) ==
    IF Len(content) > available + ContextBuffer
    THEN SubSeq(content, 1, available + ContextBuffer) \o S_ellipsis
    ELSE content

\* content[:available] + "..." when the content is longer than available
TruncateContent(content, available) ==
    IF Len(content) > available
    THEN SubSeq(content, 1, available) \o S_ellipsis
    ELSE content

RECURSIVE ContextLoop(_, _, _, _, _)
\* the for loop of get_relevant_context from result i on: one record per result
\* visited, with the block emitted for it when it is included
ContextLoop(results, i, max_context_length, current_length, visited) ==
    IF i > Len(results) THEN visited
    ELSE LET source_info == SourceInfo(results[i])
             available_length ==
                 max_context_length - current_length - Len(source_info) - ContextBuffer
             included == available_length > MinAvailable
             content == IF included
                        THEN TruncateContent(results[i].content, available_length)
                        ELSE results[i].content
             length == IF included
                       THEN current_length + Len(source_info) + Len(content) + ContextBuffer
                       ELSE current_length
             step == [index |-> i,
                      available |-> available_length,
                      included |-> included,
                      source_info |-> source_info,
                      content |-> content,
                      current_length |-> length]
         IN  IF length >= max_context_length
             THEN Append(visited, step)
             ELSE ContextLoop(results, i + 1, max_context_length, length,
                              Append(visited, step))

\* a block is emitted for every result visited, included or skipped
ContextPartsOfAll(steps) ==
    [j \in 1..Len(steps) |-> steps[j].source_info \o <<"\n">> \o steps[j].content]

\* context_parts: f"{source_info}\n{content}" of every included result
ContextParts(steps) ==
    LET inc == SelectSeq(steps, LAMBDA st : st.included)
    IN  [j \in 1..Len(inc) |-> inc[j].source_info \o <<"\n">> \o inc[j].content]

RECURSIVE Join(_, _)
\* sep.join(parts)
Join(sep, parts) ==
    IF parts = <<>> THEN <<>>
    ELSE IF Len(parts) = 1 THEN parts[1]
    ELSE parts[1] \o sep \o Join(sep, Tail(parts))

\* the empty result list is not told apart
ContextWithoutSentinel(results, max_context_length) ==
    LET steps == ContextLoop(results, 1, max_context_length, 0, <<>>)
    IN  [steps |-> steps, context |-> Join(S_separator, ContextParts(steps))]

\* get_relevant_context, given what search returned
RelevantContext(results, max_context_length) ==
    IF results = <<>>
    THEN [steps |-> <<>>, context |-> S_sentinel]
    ELSE LET steps == ContextLoop(results, 1, max_context_length, 0, <<>>)
         IN  [steps |-> steps, context |-> Join(S_separator, ContextParts(steps))]

\* Executor._search_knowledge_rag, given the outcome of rag_system.search
SearchKnowledgeResult(query, subject, out) ==
    IF out.raised
    THEN [status |-> "error"]
    ELSE [status |-> "success",
          query |-> query,
          subject_filter |-> subject,
          results_count |-> Len(out.results),
          results |-> out.results]

(***************************************************************************)
(* KnowledgeRetriever: the keyword search over the same DocumentStore.     *)
(* Its index holds, per directory, the file read last among those whose    *)
(* name ends in -overview.md and in -study-notes.md.                       *)
(***************************************************************************)
\* str.lower()
Lower(s) == [i \in 1..Len(s) |-> ToLower(s[i])]

\* the positions at which a word of s starts
WordStarts(s) ==
    {i \in 1..Len(s) : ~IsSpace(s[i]) /\ (i = 1 \/ IsSpace(s[i - 1]))}

\* str.split(): the maximal runs of non-whitespace characters, in order
SplitWords(s) ==
    LET starts == WordStarts(s)
        start(k) == CHOOSE i \in starts : Cardinality({j \in starts : j < i}) = k - 1
        end(i) == CHOOSE e \in i..Len(s) :
                      /\ \A j \in i..e : ~IsSpace(s[j])
                      /\ (e = Len(s) \/ IsSpace(s[e + 1]))
    IN  [k \in 1..Cardinality(starts) |-> SubSeq(s, start(k), end(start(k)))]

RECURSIVE CountFrom(_, _, _)
\* str.count(sub): the occurrences of sub in s from position i on, none
\* overlapping, found from left to right
CountFrom(s, sub, i) ==
    IF sub = <<>> THEN Len(s) - i + 2
    ELSE LET M == {j \in i..(Len(s) - Len(sub) + 1) : SubSeq(s, j, j + Len(sub) - 1) = sub}
         IN  IF M = {} THEN 0
             ELSE 1 + CountFrom(s, sub, (CHOOSE j \in M : \A k \in M : j <= k) + Len(sub))

RECURSIVE WordMatches(_, _)
\* the matches of the query words longer than two characters, two points each
WordMatches(words, content_lower) ==
    IF words = <<>> THEN 0
    ELSE (IF Len(Head(words)) > 2 THEN 2 * CountFrom(content_lower, Head(words), 1) ELSE 0)
         + WordMatches(Tail(words), content_lower)

\* _calculate_relevance_score: the score is the fraction num / den
CalculateRelevanceScore(query, content) ==
    IF content = <<>> THEN [num |-> 0, den |-> 1]
    ELSE LET content_lower == Lower(content)
             total_words == Cardinality(WordStarts(content))
             score == 10 * CountFrom(content_lower, query, 1)
                      + WordMatches(SplitWords(query), content_lower)
         IN  IF total_words > 0
             THEN [num |-> score * 100, den |-> total_words]
             ELSE [num |-> score, den |-> 1]

ScoreLess(a, b) == a.num * b.den < b.num * a.den

\* the slot of the last file of directory d whose name ends in suffix, 0 when none
IndexedFile(st, d, suffix) ==
    LET I == {i \in SlotIds : /\ FileExists(st, i) /\ Slots[i].dir = d
                              /\ EndsWith(Slots[i].name, suffix)}
    IN  IF I = {} THEN 0 ELSE CHOOSE i \in I : \A j \in I : j <= i

\* the result for the file of slot i, when there is one and it scores above 0
ScoredFile(query, st, i, meta) ==
    IF i = 0 THEN <<>>
    ELSE LET content == ReadMarkdownFile(st[i])
             score == CalculateRelevanceScore(query, content)
         IN  IF score.num > 0
             THEN << [meta |-> meta,
                      content |-> content,
                      file_path |-> FilePath(Slots[i].dir, Slots[i].name),
                      relevance_score |-> score] >>
             ELSE <<>>

\* _search_subtopic
SearchSubtopic(query, subject, topic, subtopic, path, st) ==
    ScoredFile(query, st, IndexedFile(st, path, S_overview_md),
               [subject |-> subject, topic |-> topic, subtopic |-> subtopic,
                type |-> DocType(<<"s", "u", "b", "t", "o", "p", "i", "c">>, S_overview_md),
                title |-> DocTitle(subtopic, S_overview_md)])
    \o ScoredFile(query, st, IndexedFile(st, path, S_study_notes_md),
               [subject |-> subject, topic |-> topic, subtopic |-> subtopic,
                type |-> DocType(<<"s", "u", "b", "t", "o", "p", "i", "c">>, S_study_notes_md),
                title |-> DocTitle(subtopic, S_study_notes_md)])

RECURSIVE SearchSubtopics(_, _, _, _, _, _)
SearchSubtopics(query, subject, topic, path, es, st) ==
    IF es = <<>> THEN <<>>
    ELSE (IF Head(es).is_file THEN <<>>
          ELSE SearchSubtopic(query, subject, topic, Head(es).name,
                              path \o <<Head(es).name>>, st))
         \o SearchSubtopics(query, subject, topic, path, Tail(es), st)

\* _search_topic
SearchTopic(query, subject, topic, path, st) ==
    ScoredFile(query, st, IndexedFile(st, path, S_overview_md),
               [subject |-> subject, topic |-> topic,
                type |-> DocType(<<"t", "o", "p", "i", "c">>, S_overview_md),
                title |-> DocTitle(topic, S_overview_md)])
    \o ScoredFile(query, st, IndexedFile(st, path, S_study_notes_md),
               [subject |-> subject, topic |-> topic,
                type |-> DocType(<<"t", "o", "p", "i", "c">>, S_study_notes_md),
                title |-> DocTitle(topic, S_study_notes_md)])
    \o SearchSubtopics(query, subject, topic, path, IterDir(st, path), st)

RECURSIVE SearchTopics(_, _, _, _, _)
SearchTopics(query, subject, path, es, st) ==
    IF es = <<>> THEN <<>>
    ELSE (IF Head(es).is_file THEN <<>>
          ELSE SearchTopic(query, subject, Head(es).name, path \o <<Head(es).name>>, st))
         \o SearchTopics(query, subject, path, Tail(es), st)

\* _search_subject over the index _index_subject built; nothing for a subject
\* whose directory does not exist
SearchSubject(query, subject, st) ==
    IF ~DirExists(st, <<subject>>) THEN <<>>
    ELSE ScoredFile(query, st, FileNamed(st, <<subject>>, subject \o S_overview_md),
                    [subject |-> subject,
                     type |-> <<"o", "v", "e", "r", "v", "i", "e", "w">>,
                     title |-> Capitalize(subject) \o S_Overview])
         \o ScoredFile(query, st, FileNamed(st, <<subject>>, subject \o S_study_notes_md),
                    [subject |-> subject,
                     type |-> <<"s", "t", "u", "d", "y", "_", "n", "o", "t", "e", "s">>,
                     title |-> Capitalize(subject) \o S_StudyNotes])
         \o SearchTopics(query, subject, <<subject>>, IterDir(st, <<subject>>), st)

RECURSIVE InsertByScore(_, _)
InsertByScore(r, ranked) ==
    IF ranked = <<>> THEN <<r>>
    ELSE IF ScoreLess(Head(ranked).relevance_score, r.relevance_score)
         THEN <<r>> \o ranked
         ELSE <<Head(ranked)>> \o InsertByScore(r, Tail(ranked))

RECURSIVE SortByScore(_)
\* results.sort(key=relevance_score, reverse=True): highest first, ties in
\* their original order
SortByScore(results) ==
    IF results = <<>> THEN <<>>
    ELSE InsertByScore(results[Len(results)],
                       SortByScore(SubSeq(results, 1, Len(results) - 1)))

\* subjects_to_search of search_knowledge_base
SubjectsToSearch(subject_filter) ==
    IF subject_filter = S_all THEN <<S_math, S_english>>
    ELSE IF subject_filter \in {S_math, S_english} THEN <<subject_filter>>
    ELSE <<>>

RECURSIVE SearchSubjects(_, _, _)
SearchSubjects(query, subjects, st) ==
    IF subjects = <<>> THEN <<>>
    ELSE SearchSubject(query, Head(subjects), st) \o SearchSubjects(query, Tail(subjects), st)

\* what KnowledgeRetriever.search_knowledge_base returns over the index built from st
KnowledgeBaseResults(st, query, subject_filter, max_results) ==
    LET results == SortByScore(SearchSubjects(Lower(query), SubjectsToSearch(subject_filter), st))
    IN  SubSeq(results, 1, Min(max_results, Len(results)))

(***************************************************************************)
(* State.  coll is the stored collection named collection_name; gen counts *)
(* the collections created so far; inst[i] is the SATKnowledgeRAG object   *)
(* of process i and the collection its handle names.  last records the     *)
(* latest call that may change the index or the DocumentStore; ret is the  *)
(* value a query call returned, until its caller has taken it.  pc is the  *)
(* position of the process that is inside rebuild_index; mem is the Memory *)
(* object of the agent.                                                    *)
(***************************************************************************)
\* Memory(): no item in working memory, no file in storage_dir
NoMemory == [working_memory |-> <<>>, disk |-> <<>>, clock |-> 0]

Instances == {"app", "editor"}

NoInstance == [constructed |-> FALSE, handle |-> 0]

Idle == [op |-> "idle"]

HandleOk(i) == coll.exists /\ inst[i].handle = coll.uid

\* whether a record of last stands for a rebuild_index that returned normally
RebuiltOk(rec) == rec.op = "rebuild" /\ ~rec.raised

\* the positions whose embedding call may fail during a build over st
FailingSets(st) == SUBSET (1..Len(Collected[st][1].documents))

Queries == { <<"a", "l", "g", "e", "b", "r", "a">>, <<"c", "o", "m", "m", "a", "s">> }

\* a word the algebra study notes begin with, as a user types it
S_keyword == Capitalize(SubSeq(Text(150, 7), 1, 6))

SubjectFilters == {S_all, S_math, S_english, S_science}

\* the DocumentStores the programs start with: a math overview, an english
\* study-notes file and a topic file that is still blank; or the skeleton of a
\* knowledge base nobody has written in yet, its files empty, blank or unreadable
InitStores ==
    {st \in Stores : /\ st[2] = FileAbsent
                     /\ st[3].text = <<" ", "\n">>
                     /\ st[6] = FileAbsent
                     /\ \/ /\ st[1].kind = "text"
                           /\ st[4] = FileAbsent
                           /\ st[5].kind = "text" /\ st[5].text # <<>>
                        \/ /\ st[1] = FileAbsent
                           /\ st[4] = Undecodable
                           /\ st[5] = TextFile(<<>>)}

Init ==
    /\ store \in InitStores
    /\ coll = NoCollection
    /\ gen = 0
    /\ inst = [i \in Instances |-> NoInstance]
    /\ last = [op |-> "init"]
    /\ ret = Idle
    /\ edits = 0
    /\ pc = "idle"
    /\ mem = NoMemory

\* the constructor also builds when the collection it loaded has count 0
ConstructFillingEmpty(i, failing, addFails) ==
    /\ ret = Idle
    /\ IF coll.exists /\ coll.items # <<>>
       THEN /\ failing = {} /\ ~addFails
            /\ inst' = [inst EXCEPT ![i] = [constructed |-> TRUE, handle |-> coll.uid]]
            /\ last' = [op |-> "construct", inst |-> i, existed |-> TRUE, raised |-> FALSE,
                        calls |-> << [fn |-> "get_collection", arg |-> 0, ok |-> TRUE] >>]
            /\ UNCHANGED <<store, coll, gen, ret, edits, pc, mem>>
       ELSE /\ gen < MaxBuilds
            /\ LET b == BuildKnowledgeIndex(<<>>, store, gen + 1, failing, addFails)
                   uid == IF coll.exists THEN coll.uid ELSE gen + 1
               IN  /\ coll' = [exists |-> TRUE, uid |-> uid, items |-> b.items]
                   /\ inst' = [inst EXCEPT ![i] =
                                  IF b.raised THEN NoInstance
                                  ELSE [constructed |-> TRUE, handle |-> uid]]
                   /\ last' = [op |-> "construct", inst |-> i, existed |-> coll.exists,
                               raised |-> b.raised,
                               calls |-> << [fn |-> "get_collection", arg |-> 0, ok |-> coll.exists] >>
                                         \o b.calls]
            /\ gen' = gen + 1
            /\ UNCHANGED <<store, ret, edits, pc, mem>>

\* the constructor builds whether or not the collection exists
ConstructAlwaysBuilds(i, failing, addFails) ==
    /\ ret = Idle
    /\ gen < MaxBuilds
    /\ LET b == BuildKnowledgeIndex(coll.items, store, gen + 1, failing, addFails)
       IN  /\ coll' = [exists |-> TRUE, uid |-> IF coll.exists THEN coll.uid ELSE gen + 1,
                       items |-> b.items]
           /\ inst' = [inst EXCEPT ![i] =
                          [constructed |-> TRUE,
                           handle |-> IF coll.exists THEN coll.uid ELSE gen + 1]]
           /\ last' = [op |-> "construct", inst |-> i, existed |-> coll.exists,
                       raised |-> b.raised,
                       calls |-> << [fn |-> "get_collection", arg |-> 0, ok |-> coll.exists] >>
                                 \o b.calls]
    /\ gen' = gen + 1
    /\ UNCHANGED <<store, ret, edits, pc, mem>>

\* SATKnowledgeRAG(api_key) in process i
Construct(i, failing, addFails) ==
    /\ ret = Idle
    /\ IF coll.exists
       THEN \* no build: the inputs of a build are not drawn
            /\ failing = {} /\ ~addFails
            /\ inst' = [inst EXCEPT ![i] = [constructed |-> TRUE, handle |-> coll.uid]]
            /\ last' = [op |-> "construct", inst |-> i, existed |-> TRUE, raised |-> FALSE,
                        calls |-> << [fn |-> "get_collection", arg |-> 0, ok |-> TRUE] >>]
            /\ UNCHANGED <<store, coll, gen, ret, edits, pc, mem>>
       ELSE /\ gen < MaxBuilds
            /\ LET b == BuildKnowledgeIndex(<<>>, store, gen + 1, failing, addFails)
               IN  /\ coll' = [exists |-> TRUE, uid |-> gen + 1, items |-> b.items]
                   /\ inst' = [inst EXCEPT ![i] =
                                  IF b.raised THEN NoInstance
                                  ELSE [constructed |-> TRUE, handle |-> gen + 1]]
                   /\ last' = [op |-> "construct", inst |-> i, existed |-> FALSE,
                               raised |-> b.raised,
                               calls |-> << [fn |-> "get_collection", arg |-> 0, ok |-> FALSE],
                                            [fn |-> "create_collection", arg |-> gen + 1, ok |-> TRUE] >>
                                         \o b.calls]
            /\ gen' = gen + 1
            /\ UNCHANGED <<store, ret, edits, pc, mem>>

\* rebuild_index of process i
RebuildIndex(i, delFails, failing, addFails) ==
    /\ ret = Idle
    /\ inst[i].constructed
    /\ gen < MaxBuilds
    /\ delFails => coll.exists
    /\ LET deleted == coll.exists /\ ~delFails
           del == [fn |-> "delete_collection", arg |-> coll.uid, ok |-> deleted]
       IN  IF coll.exists /\ ~deleted
           THEN \* create_collection raises: the name is taken, and nothing is built
                /\ failing = {} /\ ~addFails
                /\ last' = [op |-> "rebuild", inst |-> i, raised |-> TRUE,
                            after_rebuild |-> RebuiltOk(last),
                            calls |-> << del, [fn |-> "create_collection", arg |-> 0, ok |-> FALSE] >>]
                /\ UNCHANGED <<store, coll, gen, inst, ret, edits, pc, mem>>
           ELSE LET b == BuildKnowledgeIndex(<<>>, store, gen + 1, failing, addFails)
                IN  /\ coll' = [exists |-> TRUE, uid |-> gen + 1, items |-> b.items]
                    /\ inst' = [inst EXCEPT ![i].handle = gen + 1]
                    /\ gen' = gen + 1
                    /\ last' = [op |-> "rebuild", inst |-> i, raised |-> b.raised,
                                after_rebuild |-> RebuiltOk(last),
                                calls |-> << del, [fn |-> "create_collection", arg |-> gen + 1, ok |-> TRUE] >>
                                          \o b.calls]
                    /\ UNCHANGED <<store, ret, edits, pc, mem>>

\* the record of a search call
SearchReturn(i, query, subject_filter, max_results, qfails) ==
    LET out == SearchResults(HandleOk(i), coll.items, query, subject_filter,
                             max_results, qfails)
    IN  [op |-> "search", inst |-> i, query |-> query,
         subject_filter |-> subject_filter, max_results |-> max_results,
         query_embedding |-> GenerateQueryEmbedding(query, qfails),
         repeated |-> ret # Idle,
         raised |-> out.raised, index_error |-> out.index_error,
         results |-> out.results]

\* the result list outlives the call and keeps what earlier calls put in it
SearchAccumulating(i, query, subject_filter, max_results, qfails) ==
    /\ inst[i].constructed
    /\ \/ ret = Idle
       \/ /\ ret.op = "search"
          /\ ret.inst = i
          /\ ret.query = query
          /\ ret.subject_filter = subject_filter
          /\ ret.max_results = max_results
    /\ ret' = [SearchReturn(i, query, subject_filter, max_results, qfails) EXCEPT
                  !.results = (IF ret = Idle THEN <<>> ELSE ret.results) \o @]
    /\ UNCHANGED <<store, coll, gen, inst, last, edits, pc, mem>>

\* search(query, subject_filter, max_results) of process i; a caller may issue
\* the call it has just made once more
Search(i, query, subject_filter, max_results, qfails) ==
    /\ inst[i].constructed
    /\ \/ ret = Idle
       \/ /\ ret.op = "search"
          /\ ret.inst = i
          /\ ret.query = query
          /\ ret.subject_filter = subject_filter
          /\ ret.max_results = max_results
    /\ ret' = SearchReturn(i, query, subject_filter, max_results, qfails)
    /\ UNCHANGED <<store, coll, gen, inst, last, edits, pc, mem>>

\* the search_knowledge tool of the executor of process i
SearchKnowledgeRag(i, query, subject, max_results, qfails) ==
    /\ ret = Idle
    /\ inst[i].constructed
    /\ LET out == SearchResults(HandleOk(i), coll.items, query, subject, max_results, qfails)
       IN  ret' = [op |-> "search_knowledge", inst |-> i, query |-> query,
                   subject_filter |-> subject, max_results |-> max_results,
                   raised |-> FALSE, index_error |-> out.index_error,
                   result |-> SearchKnowledgeResult(query, subject, out)]
    /\ UNCHANGED <<store, coll, gen, inst, last, edits, pc, mem>>

\* get_relevant_context(query, subject_filter, max_context_length) of process i
GetRelevantContext(i, query, subject_filter, max_context_length, qfails) ==
    /\ ret = Idle
    /\ inst[i].constructed
    /\ LET out == SearchResults(HandleOk(i), coll.items, query, subject_filter,
                                ContextResults, qfails)
           ctx == RelevantContext(out.results, max_context_length)
       IN  ret' = [op |-> "get_relevant_context", inst |-> i, query |-> query,
                   subject_filter |-> subject_filter,
                   max_context_length |-> max_context_length,
                   raised |-> FALSE, index_error |-> out.index_error,
                   results |-> out.results, steps |-> ctx.steps, context |-> ctx.context]
    /\ UNCHANGED <<store, coll, gen, inst, last, edits, pc, mem>>

\* KnowledgeRetriever.search_knowledge_base(query, subject_filter, max_results);
\* the retriever was constructed over the DocumentStore as it is
SearchKnowledgeBase(query, subject_filter, max_results) ==
    /\ ret = Idle
    /\ ret' = [op |-> "search_knowledge_base", query |-> query,
               subject_filter |-> subject_filter, max_results |-> max_results,
               raised |-> FALSE, index_error |-> FALSE,
               results |-> KnowledgeBaseResults(store, query, subject_filter, max_results)]
    /\ UNCHANGED <<store, coll, gen, inst, last, edits, pc, mem>>

\* the failure of collection.count() reaches the caller
StatsUnguarded(handle_ok, items) ==
    [raised |-> ~handle_ok,
     result |-> [total_documents |-> Len(items),
                 collection_name |-> "sat_knowledge",
                 embedding_model |-> "text-embedding-004 (Gemini)"]]

\* what get_stats returns: collection.count() raises when the handle no longer
\* names the stored collection
StatsResult(handle_ok, items) ==
    IF handle_ok
    THEN [raised |-> FALSE,
          result |-> [total_documents |-> Len(items),
                      collection_name |-> "sat_knowledge",
                      embedding_model |-> "text-embedding-004 (Gemini)"]]
    ELSE [raised |-> FALSE, result |-> [error |-> "collection does not exist"]]

\* get_stats() of process i
GetStats(i) ==
    /\ ret = Idle
    /\ inst[i].constructed
    /\ LET out == StatsResult(HandleOk(i), coll.items)
       IN  ret' = [op |-> "get_stats", inst |-> i, raised |-> out.raised,
                   index_error |-> ~HandleOk(i), result |-> out.result]
    /\ UNCHANGED <<store, coll, gen, inst, last, edits, pc, mem>>

\* the caller takes the value a query call returned
Return ==
    /\ ret # Idle
    /\ ret' = Idle
    /\ UNCHANGED <<store, coll, gen, inst, last, edits, pc, mem>>

\* saving a file also drops the file's entry from the index
EditFileSyncing(s, f) ==
    /\ ret = Idle
    /\ edits < MaxEdits
    /\ f # store[s]
    /\ store' = [store EXCEPT ![s] = f]
    /\ edits' = edits + 1
    /\ last' = [op |-> "edit", slot |-> s]
    /\ coll' = [coll EXCEPT !.items =
                   SelectSeq(@, LAMBDA it :
                       it.metadata.file_path # FilePath(Slots[s].dir, Slots[s].name))]
    /\ UNCHANGED <<gen, inst, ret, pc, mem>>

\* an editing tool writes, creates or removes one file of the DocumentStore
EditFile(s, f) ==
    /\ ret = Idle
    /\ edits < MaxEdits
    /\ f # store[s]
    /\ store' = [store EXCEPT ![s] = f]
    /\ edits' = edits + 1
    /\ last' = [op |-> "edit", slot |-> s]
    /\ UNCHANGED <<coll, gen, inst, ret, pc, mem>>

(***************************************************************************)
(* The life cycle of the index: constructions, rebuilds and edits, with    *)
(* queries in between.                                                     *)
(***************************************************************************)
Next ==
    \/ \E i \in Instances, failing \in FailingSets(store), addFails \in BOOLEAN :
           Construct(i, failing, addFails)
    \/ \E i \in Instances, delFails \in BOOLEAN, failing \in FailingSets(store),
          addFails \in BOOLEAN :
           RebuildIndex(i, delFails, failing, addFails)
    \/ \E i \in Instances :
           Search(i, <<"a", "l", "g", "e", "b", "r", "a">>, S_english, ContextResults, FALSE)
    \/ \E i \in Instances :
           SearchKnowledgeRag(i, <<"a", "l", "g", "e", "b", "r", "a">>, S_all, ContextResults, FALSE)
    \/ \E i \in Instances : GetStats(i)
    \/ Return
    \/ \E s \in SlotIds : \E f \in SlotContents(s) : EditFile(s, f)

Spec == Init /\ [][Next]_vars

(***************************************************************************)
(* rebuild_index call by call, for the clients that search while one       *)
(* process is inside it.  Each call on the collection store (delete,       *)
(* create, add, query) is one step.                                        *)
(***************************************************************************)
\* chroma_client.delete_collection(name) inside try/except: pass
RebuildDelete(w) ==
    /\ ret = Idle
    /\ pc = "idle"
    /\ inst[w].constructed
    /\ gen < MaxBuilds
    /\ coll' = NoCollection
    /\ pc' = "deleted"
    /\ UNCHANGED <<store, gen, inst, last, ret, edits, mem>>

\* self.collection = chroma_client.create_collection(name): raises when the
\* name is taken
RebuildCreate(w) ==
    /\ ret = Idle
    /\ pc = "deleted"
    /\ IF coll.exists
       THEN /\ pc' = "idle"
            /\ last' = [op |-> "rebuild", inst |-> w, raised |-> TRUE, calls |-> <<>>]
            /\ UNCHANGED <<store, coll, gen, inst, ret, edits, mem>>
       ELSE /\ coll' = [exists |-> TRUE, uid |-> gen + 1, items |-> <<>>]
            /\ inst' = [inst EXCEPT ![w].handle = gen + 1]
            /\ gen' = gen + 1
            /\ pc' = "created"
            /\ UNCHANGED <<store, last, ret, edits, mem>>

\* only the first document reaches the collection
RebuildAddFirstOnly(w, failing, addFails) ==
    /\ ret = Idle
    /\ pc = "created"
    /\ LET b == BuildKnowledgeIndex(coll.items, store, gen, failing, addFails)
       IN  /\ coll' = [coll EXCEPT !.items = SubSeq(b.items, 1, Min(1, Len(b.items)))]
           /\ last' = [op |-> "rebuild", inst |-> w, raised |-> b.raised, calls |-> b.calls]
    /\ pc' = "idle"
    /\ UNCHANGED <<store, gen, inst, ret, edits, mem>>

\* self._build_knowledge_index(): the documents are collected and embedded,
\* then handed to the collection in its one add call
RebuildAdd(w, failing, addFails) ==
    /\ ret = Idle
    /\ pc = "created"
    /\ LET b == BuildKnowledgeIndex(coll.items, store, gen, failing, addFails)
       IN  /\ coll' = [coll EXCEPT !.items = b.items]
           /\ last' = [op |-> "rebuild", inst |-> w, raised |-> b.raised, calls |-> b.calls]
    /\ pc' = "idle"
    /\ UNCHANGED <<store, gen, inst, ret, edits, mem>>

\* both processes have constructed SATKnowledgeRAG over the built collection
RaceInit ==
    /\ store \in InitStores
    /\ gen = 1
    /\ coll = [exists |-> TRUE, uid |-> 1,
               items |-> BuildKnowledgeIndex(<<>>, store, 1, {}, FALSE).items]
    /\ inst = [i \in Instances |-> [constructed |-> TRUE, handle |-> 1]]
    /\ last = [op |-> "init"]
    /\ ret = Idle
    /\ edits = 0
    /\ pc = "idle"
    /\ mem = NoMemory

\* the editor is the one writer; both processes search
RaceNext ==
    \/ RebuildDelete("editor")
    \/ RebuildCreate("editor")
    \/ \E failing \in FailingSets(store), addFails \in BOOLEAN :
           RebuildAdd("editor", failing, addFails)
    \/ \E i \in Instances :
           Search(i, <<"a", "l", "g", "e", "b", "r", "a">>, S_all, ContextResults, FALSE)
    \/ Return
    \/ \E s \in SlotIds : \E f \in SlotContents(s) : EditFile(s, f)

RaceSpec == RaceInit /\ [][RaceNext]_vars

(***************************************************************************)
(* Executor.execute_plan and execute_task.  What the language model        *)
(* answers, and whether a call to it or to a tool raises, is the           *)
(* environment's choice at each task.                                      *)
(***************************************************************************)
\* _register_default_tools: the keys of self.tools
ToolNames == {"calculator", "search_knowledge", "get_context"}

\* the first answer of the model: the call raises, or the text holds no tool
\* request, or a brace span that is not JSON, or JSON that is no object, or
\* an object naming a tool
FirstAnswers == {"raises", "direct", "bad_json", "not_object", "unknown_tool"} \cup ToolNames

\* a tool call returns its dict (of status success or error) or raises
ToolOutcomes == {"success", "error", "raises"}

\* the follow-up call returns text or raises
FollowUps == {"text", "raises"}

Responses == [llm1 : FirstAnswers, tool : ToolOutcomes, llm2 : FollowUps]

DirectResult ==
    [status |-> "success", result |-> "response_text", tool_used |-> "None", tool_result |-> "None"]

ErrorResult == [status |-> "error", result |-> "None", tool_used |-> "None", tool_result |-> "None"]

ToolResult(tool_name, tool_status) ==
    [status |-> "success", result |-> "follow_up_text", tool_used |-> tool_name,
     tool_result |-> tool_status]

\* execute_task: the first generate_content call stands before the try block;
\* json.JSONDecodeError falls through to the direct response, every other
\* exception inside the try block becomes the error result
ExecuteTask(task, resp) ==
    IF resp.llm1 = "raises" THEN [raised |-> TRUE, result |-> ErrorResult]
    ELSE IF resp.llm1 \in {"direct", "bad_json", "unknown_tool"}
         THEN [raised |-> FALSE, result |-> DirectResult]
    ELSE IF resp.llm1 = "not_object" THEN [raised |-> FALSE, result |-> ErrorResult]
    ELSE IF resp.tool = "raises" \/ resp.llm2 = "raises"
         THEN [raised |-> FALSE, result |-> ErrorResult]
    ELSE [raised |-> FALSE, result |-> ToolResult(resp.llm1, resp.tool)]

TaskDescriptions == {"t1", "t2"}

Plans == UNION {[1..n -> [description : TaskDescriptions]] : n \in 0..MaxPlan}

\* execute_plan(plan): results = [], context = {}
ExecutePlan(plan) ==
    /\ ret = Idle
    /\ pc = "idle"
    /\ pc' = "plan"
    /\ last' = [op |-> "execute_plan", plan |-> plan, results |-> <<>>, answers |-> <<>>]
    /\ UNCHANGED <<store, coll, gen, inst, ret, edits, mem>>

\* one turn of the loop: execute_task(task, context), results.append; an
\* exception leaves execute_plan
PlanTask(resp) ==
    /\ pc = "plan"
    /\ Len(last.results) < Len(last.plan)
    /\ LET task == last.plan[Len(last.results) + 1]
           r    == ExecuteTask(task, resp)
       IN  IF r.raised
           THEN /\ ret' = [op |-> "execute_plan", raised |-> TRUE, plan |-> last.plan,
                           results |-> <<>>, answers |-> Append(last.answers, resp)]
                /\ pc' = "idle"
                /\ last' = last
           ELSE /\ last' = [last EXCEPT !.results = Append(@, r.result),
                                        !.answers = Append(@, resp)]
                /\ UNCHANGED <<ret, pc>>
    /\ UNCHANGED <<store, coll, gen, inst, edits, mem>>

\* return results
PlanReturn ==
    /\ pc = "plan"
    /\ Len(last.results) = Len(last.plan)
    /\ ret' = [op |-> "execute_plan", raised |-> FALSE, plan |-> last.plan,
               results |-> last.results, answers |-> last.answers]
    /\ pc' = "idle"
    /\ UNCHANGED <<store, coll, gen, inst, last, edits, mem>>

PlanNext ==
    \/ \E plan \in Plans : ExecutePlan(plan)
    \/ \E resp \in Responses : PlanTask(resp)
    \/ PlanReturn
    \/ Return

PlanSpec == Init /\ [][PlanNext]_vars

(***************************************************************************)
(* Memory: the working memory (a list) and the files of storage_dir.  A    *)
(* stored value is written [type, value]; a file is what json.dump left    *)
(* of the item.  last.log is the history of the store calls and            *)
(* last.clears the number of clear_working_memory calls so far.            *)
(***************************************************************************)
\* the values an item's content is made of: JSON has strings and lists; a
\* tuple is written as a list, and a set is not serializable
ContentTypes == {"str", "list", "tuple", "set"}

Contents == [type : ContentTypes, value : {<<"a">>}]

\* json.dump raises TypeError on a value it cannot serialize
Serializable(content) == content.type # "set"

\* json.load(json.dump(content)): a tuple comes back as a list
JsonRoundTrip(content) ==
    IF content.type = "tuple" THEN [content EXCEPT !.type = "list"] ELSE content

\* _save_to_disk: open(path, 'w') and json.dump inside try/except.  When open
\* raises no file is written; when json.dump raises the file holds the text
\* written so far, which is not a JSON document
SaveToDisk(disk, memory_item, diskOk) ==
    IF ~diskOk THEN disk
    ELSE IF ~Serializable(memory_item.content)
         THEN Append(disk, [id |-> memory_item.id, complete |-> FALSE, item |-> memory_item])
         ELSE Append(disk, [id |-> memory_item.id, complete |-> TRUE,
                            item |-> [memory_item EXCEPT !.content = JsonRoundTrip(@)]])

\* f"mem_{len(self.working_memory)}_{timestamp}", the clock read at the call
MemoryId(working_memory, timestamp) == <<Len(working_memory), timestamp>>

NoItem == [id |-> <<>>, timestamp |-> 0, content |-> [type |-> "None", value |-> <<>>]]

\* store(item, permanent): the clock has moved on since the last store
Store(item, permanent, diskOk) ==
    /\ ret = Idle
    /\ mem.clock < MaxStores
    /\ ~permanent => diskOk
    /\ LET timestamp == mem.clock + 1
           memory_id == MemoryId(mem.working_memory, timestamp)
           memory_item == [id |-> memory_id, timestamp |-> timestamp, content |-> item]
       IN  /\ mem' = [working_memory |-> Append(mem.working_memory, memory_item),
                      disk |-> IF permanent THEN SaveToDisk(mem.disk, memory_item, diskOk)
                               ELSE mem.disk,
                      clock |-> timestamp]
           /\ ret' = [op |-> "store", id |-> memory_id, found |-> FALSE, item |-> NoItem]
           /\ last' = [op |-> "memory",
                       log |-> Append(last.log,
                                      [id |-> memory_id, content |-> item,
                                       permanent |-> permanent,
                                       saved |-> permanent /\ diskOk /\ Serializable(item),
                                       epoch |-> last.clears]),
                       clears |-> last.clears]
    /\ UNCHANGED <<store, coll, gen, inst, edits, pc>>

\* the files of storage_dir are removed as well
ClearWorkingMemoryAndDisk ==
    /\ ret = Idle
    /\ last.clears < MaxClears
    /\ mem' = [mem EXCEPT !.working_memory = <<>>, !.disk = <<>>]
    /\ last' = [last EXCEPT !.clears = @ + 1]
    /\ UNCHANGED <<store, coll, gen, inst, ret, edits, pc>>

\* clear_working_memory()
ClearWorkingMemory ==
    /\ ret = Idle
    /\ last.clears < MaxClears
    /\ mem' = [mem EXCEPT !.working_memory = <<>>]
    /\ last' = [last EXCEPT !.clears = @ + 1]
    /\ UNCHANGED <<store, coll, gen, inst, ret, edits, pc>>

\* retrieve_by_id: the first item of working memory with the id; else the file
\* <id>.json when it exists and json.load reads it; else None
RetrieveResult(m, memory_id) ==
    LET inMemory == {k \in DOMAIN m.working_memory : m.working_memory[k].id = memory_id}
        onDisk == {k \in DOMAIN m.disk : m.disk[k].id = memory_id}
    IN  IF inMemory # {}
        THEN [found |-> TRUE,
              item |-> m.working_memory[CHOOSE k \in inMemory : \A j \in inMemory : k <= j]]
        ELSE IF onDisk # {} /\ m.disk[CHOOSE k \in onDisk : \A j \in onDisk : j <= k].complete
             THEN [found |-> TRUE,
                   item |-> m.disk[CHOOSE k \in onDisk : \A j \in onDisk : j <= k].item]
             ELSE [found |-> FALSE, item |-> NoItem]

RetrieveById(memory_id) ==
    /\ ret = Idle
    /\ LET r == RetrieveResult(mem, memory_id)
       IN  ret' = [op |-> "retrieve_by_id", id |-> memory_id, found |-> r.found, item |-> r.item]
    /\ UNCHANGED <<store, coll, gen, inst, last, edits, pc, mem>>

\* Memory() over an empty storage_dir
MemoryInit ==
    /\ store \in InitStores
    /\ coll = NoCollection
    /\ gen = 0
    /\ inst = [i \in Instances |-> NoInstance]
    /\ last = [op |-> "memory", log |-> <<>>, clears |-> 0]
    /\ ret = Idle
    /\ edits = 0
    /\ pc = "idle"
    /\ mem = NoMemory

\* the ids store has returned, and one it never returned
KnownIds == {last.log[k].id : k \in DOMAIN last.log} \cup {<<0, 0>>}

MemoryNext ==
    \/ \E item \in Contents, permanent \in BOOLEAN, diskOk \in BOOLEAN :
           Store(item, permanent, diskOk)
    \/ ClearWorkingMemory
    \/ \E memory_id \in KnownIds : RetrieveById(memory_id)
    \/ Return

MemorySpec == MemoryInit /\ [][MemoryNext]_vars

(***************************************************************************)
(* Executor._calculator.  What eval makes of the expression it is handed   *)
(* (a value, or an exception) is the interpreter's answer, drawn by the    *)
(* environment; the test before it and the rewriting of the expression     *)
(* are computed character by character.                                    *)
(***************************************************************************)
\* set('0123456789+-*/()^. ')
AllowedChars ==
    {"0", "1", "2", "3", "4", "5", "6", "7", "8", "9",
     "+", "-", "*", "/", "(", ")", "^", ".", " "}

RECURSIVE ReplaceStarStar(_)
\* expression.replace('**', '^'): leftmost occurrences first, not overlapping
ReplaceStarStar(s) ==
    IF Len(s) < 2 THEN s
    ELSE IF s[1] = "*" /\ s[2] = "*"
         THEN <<"^">> \o ReplaceStarStar(SubSeq(s, 3, Len(s)))
         ELSE <<s[1]>> \o ReplaceStarStar(Tail(s))

RECURSIVE ReplaceCaret(_)
\* expression.replace('^', '**')
ReplaceCaret(s) ==
    IF s = <<>> THEN <<>>
    ELSE (IF Head(s) = "^" THEN <<"*", "*">> ELSE <<Head(s)>>) \o ReplaceCaret(Tail(s))

\* every expression is handed to eval
CalculatorUnchecked(expression, evalRaises) ==
    IF evalRaises
    THEN [evaluated |-> TRUE, safe_expression |-> ReplaceCaret(expression),
          result |-> [status |-> "error", message |-> "str(e)"]]
    ELSE [evaluated |-> TRUE, safe_expression |-> ReplaceCaret(expression),
          result |-> [status |-> "success", message |-> "result"]]

\* _calculator(expression)
CalculatorResult(expression, evalRaises) ==
    IF \A k \in DOMAIN ReplaceStarStar(expression) : ReplaceStarStar(expression)[k] \in AllowedChars
    THEN IF evalRaises
         THEN [evaluated |-> TRUE, safe_expression |-> ReplaceCaret(expression),
               result |-> [status |-> "error", message |-> "str(e)"]]
         ELSE [evaluated |-> TRUE, safe_expression |-> ReplaceCaret(expression),
               result |-> [status |-> "success", message |-> "result"]]
    ELSE [evaluated |-> FALSE, safe_expression |-> <<>>,
          result |-> [status |-> "error", message |-> "Invalid characters in expression"]]

\* the characters the expressions of the model are written with
ExprChars == {"1", "0", "+", "*", "/", "^", "(", " ", "a", "_", "\n"}

Expressions == UNION {[1..n -> ExprChars] : n \in 0..MaxExprLen}

\* the calculator tool called with an expression
Calculator(expression, evalRaises) ==
    /\ ret = Idle
    /\ LET r == CalculatorResult(expression, evalRaises)
       IN  ret' = [op |-> "calculator", expression |-> expression, raised |-> FALSE,
                   evaluated |-> r.evaluated, eval_raised |-> r.evaluated /\ evalRaises,
                   safe_expression |-> r.safe_expression, result |-> r.result]
    /\ UNCHANGED <<store, coll, gen, inst, last, edits, pc, mem>>

CalcNext ==
    \/ /\ ret = Idle
       /\ \E expression \in Expressions, evalRaises \in BOOLEAN :
              Calculator(expression, evalRaises)
    \/ Return

CalcSpec == Init /\ [][CalcNext]_vars

(***************************************************************************)
(* Queries against one index: the state after SATKnowledgeRAG has been     *)
(* constructed over a DocumentStore of long study notes.                   *)
(***************************************************************************)
QueryInit ==
    /\ store \in LongStores
    /\ gen = 1
    /\ \E failing \in {{}, {1}} :
          /\ coll = [exists |-> TRUE, uid |-> 1,
                     items |-> BuildKnowledgeIndex(<<>>, store, 1, failing, FALSE).items]
    /\ inst = [i \in Instances |->
                  IF i = "app" THEN [constructed |-> TRUE, handle |-> 1] ELSE NoInstance]
    /\ last = [op |-> "init"]
    /\ ret = Idle
    /\ edits = 0
    /\ pc = "idle"
    /\ mem = NoMemory

QueryNext ==
    \/ \E q \in Queries, f \in SubjectFilters, k \in 1..ContextResults, qfails \in BOOLEAN :
           Search("app", q, f, k, qfails)
    \/ \E q \in Queries, f \in SubjectFilters, k \in 1..ContextResults, qfails \in BOOLEAN :
           SearchKnowledgeRag("app", q, f, k, qfails)
    \/ \E f \in {S_all, S_english}, n \in 1..MaxCtxLen, qfails \in BOOLEAN :
           GetRelevantContext("app", <<"a", "l", "g", "e", "b", "r", "a">>, f, n, qfails)
    \/ \E q \in {S_keyword, S_algebra}, f \in SubjectFilters, k \in 1..ContextResults :
           SearchKnowledgeBase(q, f, k)
    \/ Return

QuerySpec == QueryInit /\ [][QueryNext]_vars

(***************************************************************************)
(* Properties.                                                             *)
(***************************************************************************)
\* the call recorded in last built an index and returned normally
BuiltOk ==
    /\ last.op \in {"construct", "rebuild"}
    /\ ~last.raised
    /\ \E k \in DOMAIN last.calls : last.calls[k].fn = "create_collection" /\ last.calls[k].ok

\* the markdown files of the DocumentStore whose trimmed content is not empty
NonEmptyFiles(st) ==
    {i \in SlotIds : /\ st[i].kind = "text"
                     /\ PathSuffix(Slots[i].name) = <<".", "m", "d">>
                     /\ Strip(st[i].text) # <<>>}

\* C1: after a successful index build, collection.count() is the number of
\* files of the DocumentStore, at any of the three levels, whose trimmed
\* content is not empty
C1_CountEqualsNonEmptyFiles ==
    BuiltOk => Len(coll.items) = Cardinality(NonEmptyFiles(store))

\* C2: a search filtered to "math" or "english" never returns a result whose
\* subject metadata differs from the filter
C2_FilteredSearchKeepsSubject ==
    (ret.op = "search" /\ ret.subject_filter \in {S_math, S_english})
        => \A k \in DOMAIN ret.results :
               /\ ret.results[k].subject = ret.subject_filter
               /\ ret.results[k].metadata.subject = ret.subject_filter

C2_Witness ==
    /\ ret.op = "search"
    /\ ret.subject_filter = S_english
    /\ ret.results # <<>>
    /\ \E k \in DOMAIN coll.items : coll.items[k].metadata.subject = S_math

\* C3 as stated: for any sequence of search results, the empty one included,
\* the returned string is at most max_context_length + 13 characters long
C3_LengthWithinSlack ==
    ret.op = "get_relevant_context"
        => Len(ret.context) <= ret.max_context_length + Len(S_ellipsis) + ContextBuffer

\* C3 amended: for any non-empty sequence of search results the returned string
\* is at most max_context_length + 13 characters long; for the empty sequence
\* the 52-character sentinel is returned whatever max_context_length is
C3_LengthWithinSlackUnlessSentinel ==
    ret.op = "get_relevant_context"
        => IF ret.results = <<>>
           THEN ret.context = S_sentinel
           ELSE Len(ret.context) <= ret.max_context_length + Len(S_ellipsis) + ContextBuffer

C3_Witness ==
    /\ ret.op = "get_relevant_context"
    /\ ret.results # <<>>
    /\ \E k \in DOMAIN ret.steps :
          /\ ret.steps[k].included
          /\ Len(ret.results[ret.steps[k].index].content) > ret.steps[k].available
    /\ Len(ret.context) > ret.max_context_length - ContextBuffer

\* C4: when the search yields no results, get_relevant_context returns the one
\* fixed sentinel string and assembles no block
C4_SentinelWhenNoResults ==
    (ret.op = "get_relevant_context" /\ ret.results = <<>>)
        => /\ ret.context = S_sentinel
           /\ ret.steps = <<>>

C4_Witness ==
    /\ ret.op = "get_relevant_context"
    /\ ret.results = <<>>
    /\ ret.max_context_length < Len(S_sentinel)
    /\ coll.items # <<>>

\* the block of step st as the claim describes it, character by character
BlockAsClaimed(st, original) ==
    IF Len(original) > st.available
    THEN /\ Len(st.content) = st.available + 3
         /\ \A j \in 1..st.available : st.content[j] = original[j]
         /\ \A j \in 1..3 : st.content[st.available + j] = "."
    ELSE st.content = original

\* C5: every included result longer than the available length is emitted as its
\* first `available` characters followed by "..."; one that fits, exactly or
\* with room left, is emitted unchanged
C5_TruncationAtAvailable ==
    ret.op = "get_relevant_context"
        => /\ \A k \in DOMAIN ret.steps :
                  ret.steps[k].included
                      => BlockAsClaimed(ret.steps[k], ret.results[ret.steps[k].index].content)
           /\ ret.results # <<>>
                  => ret.context =
                         Join(S_separator,
                              ContextParts(ret.steps))

C5_Witness ==
    /\ ret.op = "get_relevant_context"
    /\ \E k \in DOMAIN ret.steps :
          /\ ret.steps[k].included
          /\ Len(ret.results[ret.steps[k].index].content) = ret.steps[k].available
          /\ ret.steps[k].content = ret.results[ret.steps[k].index].content

IdsOf(items) == {items[k].id : k \in DOMAIN items}

\* C6: a rebuild_index that follows a rebuild_index on an unchanged
\* DocumentStore, both returning normally, leaves the same collection.count(),
\* whatever embedding calls failed, and assigns ids none of which the first
\* rebuild assigned
C6_RebuildTwiceSameCount ==
    [][ ( /\ last.op = "rebuild" /\ ~last.raised
          /\ gen' = gen + 1
          /\ last'.op = "rebuild" /\ ~last'.raised
          /\ store' = store )
        => /\ Len(coll'.items) = Len(coll.items)
           /\ IdsOf(coll'.items) \cap IdsOf(coll.items) = {} ]_vars

C6_Witness ==
    /\ last.op = "rebuild" /\ ~last.raised
    /\ last.after_rebuild
    /\ Len(coll.items) >= 2
    /\ \E k \in DOMAIN coll.items : coll.items[k].embedding = ZeroVector
    /\ \E k \in DOMAIN coll.items : coll.items[k].embedding # ZeroVector

BuildCalls(calls) ==
    {k \in DOMAIN calls : calls[k].fn \in {"embed_content", "add"}}

\* C8: constructing SATKnowledgeRAG when the collection exists builds nothing
\* (no embedding call, no add call, contents unchanged); a construction builds
\* only when the collection was absent; rebuild_index builds only after it has
\* deleted the existing collection
C8_BuildOnlyWhenAbsentOrCleared ==
    [][ /\ (last'.op = "construct" /\ last' # last)
            => IF coll.exists
               THEN /\ coll' = coll
                    /\ BuildCalls(last'.calls) = {}
                    /\ last'.existed
               ELSE ~last'.existed
        /\ (last'.op = "rebuild" /\ last' # last /\ BuildCalls(last'.calls) # {})
            => /\ last'.calls[1].fn = "delete_collection"
               /\ coll.exists => (last'.calls[1].ok /\ coll'.uid # coll.uid)
               /\ IdsOf(coll'.items) \cap IdsOf(coll.items) = {} ]_vars

C8_Witness ==
    /\ last.op = "construct"
    /\ last.existed
    /\ coll.items # <<>>
    /\ inst[last.inst].handle = coll.uid

\* the embedding calls of the build recorded in last
EmbedCallsOf(calls) == SelectSeq(calls, LAMBDA c : c.fn = "embed_content")

\* C9: failing embedding calls never abort a build: the add call is made for
\* all the documents, and when it succeeds every document whose call failed
\* holds the all-zero vector and every other document its own embedding
C9_EmbeddingFailureDegrades ==
    (last.op \in {"construct", "rebuild"} /\ EmbedCallsOf(last.calls) # <<>>)
        => LET embeds == EmbedCallsOf(last.calls)
               final == last.calls[Len(last.calls)]
           IN  /\ final.fn = "add"
               /\ final.arg = Len(embeds)
               /\ final.ok
                   => /\ Len(coll.items) = Len(embeds)
                      /\ \A k \in DOMAIN embeds :
                             IF embeds[k].ok
                             THEN /\ coll.items[k].embedding = EmbedContent(coll.items[k].document)
                                  /\ coll.items[k].embedding.x # 0
                             ELSE /\ coll.items[k].embedding.x = 0
                                  /\ coll.items[k].embedding.dim = EmbeddingDim

C9_Witness ==
    /\ last.op \in {"construct", "rebuild"}
    /\ ~last.raised
    /\ \E j, k \in DOMAIN EmbedCallsOf(last.calls) :
          /\ ~EmbedCallsOf(last.calls)[j].ok
          /\ EmbedCallsOf(last.calls)[k].ok
          /\ coll.items[j].embedding = ZeroVector
          /\ coll.items[k].embedding # ZeroVector

\* C10: an index-store failure during a query reaches the caller of search, and
\* of the search_knowledge tool, as an exception or an error result, never as
\* the outcome of a search that found no documents
C10_IndexFailureSurfaced ==
    /\ (ret.op = "search" /\ ret.index_error)
           => (ret.raised \/ ret.results # <<>>)
    /\ (ret.op = "search_knowledge" /\ ret.index_error)
           => ret.result.status = "error"

\* the add calls of the build recorded in calls
AddCallsOf(calls) == SelectSeq(calls, LAMBDA c : c.fn = "add")

\* C11: when the bulk insert of a rebuild_index fails, the call raises, the
\* insert is not tried again, and the collection left behind holds none of the
\* documents the prior collection held
C11_FailedRebuildLeavesPriorAbsent ==
    [][ ( /\ last'.op = "rebuild" /\ last' # last
          /\ \E k \in DOMAIN last'.calls :
                 last'.calls[k].fn = "add" /\ ~last'.calls[k].ok )
        => /\ last'.raised
           /\ Len(AddCallsOf(last'.calls)) = 1
           /\ last'.calls[Len(last'.calls)].fn = "add"
           /\ coll'.exists
           /\ coll'.uid # coll.uid
           /\ coll'.items = <<>> ]_vars

C11_Witness ==
    /\ last.op = "rebuild"
    /\ last.after_rebuild
    /\ last.raised
    /\ AddCallsOf(last.calls) # <<>>
    /\ AddCallsOf(last.calls)[1].arg >= 2
    /\ ~AddCallsOf(last.calls)[1].ok
    /\ coll.exists /\ coll.items = <<>>

\* the items of the collection a search filtered by subject_filter may return
MatchingItems(items, subject_filter) ==
    SelectSeq(items, LAMBDA it : Matches(it.metadata, WhereClause(subject_filter)))

\* C12: a build over a DocumentStore none of whose files has content returns
\* normally and leaves a collection of count 0, and a search over a collection
\* none of whose documents matches the filter returns the empty sequence and
\* does not raise
C12_EmptyCorpusIsNoError ==
    /\ ( /\ last.op \in {"construct", "rebuild"}
         /\ \E k \in DOMAIN last.calls :
                last.calls[k].fn = "create_collection" /\ last.calls[k].ok
         /\ NonEmptyFiles(store) = {} )
           => /\ ~last.raised
              /\ coll.exists
              /\ Len(coll.items) = 0
    /\ ( /\ ret.op = "search"
         /\ MatchingItems(coll.items, ret.subject_filter) = <<>> )
           => /\ ~ret.raised
              /\ ret.results = <<>>

C12_Witness ==
    /\ last.op = "rebuild"
    /\ NonEmptyFiles(store) = {}
    /\ \E i \in SlotIds : store[i].kind = "text" /\ store[i].text # <<>>
    /\ coll.exists /\ coll.items = <<>>
    /\ ret.op = "search"
    /\ HandleOk(ret.inst)
    /\ ret.results = <<>>

\* C13: for a subject_filter other than "all", "math" and "english",
\* SATKnowledgeRAG.search and KnowledgeRetriever.search_knowledge_base make the
\* same choice: both answer as they do without a filter, or both return nothing
C13_UnrecognizedFilterConsistent ==
    ( /\ ret.op = "search_knowledge_base"
      /\ ret.subject_filter \notin {S_all, S_math, S_english} )
        => LET rag == SearchResults(HandleOk("app"), coll.items, ret.query,
                                    ret.subject_filter, ret.max_results, FALSE).results
               ragAll == SearchResults(HandleOk("app"), coll.items, ret.query,
                                       S_all, ret.max_results, FALSE).results
               kbAll == KnowledgeBaseResults(store, ret.query, S_all, ret.max_results)
           IN  \/ rag = ragAll /\ ret.results = kbAll
               \/ rag = <<>> /\ ret.results = <<>>

\* C14: every vector the collection was handed, the vectors of the documents
\* and the vector of a query, has the dimensionality of the embedding provider,
\* the all-zero placeholders of failed embedding calls included
C14_OneDimensionality ==
    /\ \A k \in DOMAIN coll.items : coll.items[k].embedding.dim = ProviderDim
    /\ ret.op = "search" => ret.query_embedding.dim = ProviderDim

C14_Witness ==
    /\ \E k \in DOMAIN coll.items : coll.items[k].embedding = ZeroVector
    /\ \E k \in DOMAIN coll.items : coll.items[k].embedding.x # 0
    /\ ret.op = "search"
    /\ ret.query_embedding = ZeroVector
    /\ ret.results # <<>>

\* C15: the index changes only through a build: an edit of the DocumentStore
\* or a query leaves the collection as it is, a search answers from the
\* documents the collection holds, and after a rebuild_index that returned
\* normally every entry is one this rebuild created
C15_IndexChangesOnlyByBuild ==
    [][ /\ (last' = last \/ last'.op = "edit") => coll' = coll
        /\ (ret'.op = "search" /\ ret' # ret)
               => \A k \in DOMAIN ret'.results :
                      \E j \in DOMAIN coll.items :
                          /\ coll.items[j].document = ret'.results[k].content
                          /\ coll.items[j].metadata = ret'.results[k].metadata
        /\ (last'.op = "rebuild" /\ last' # last /\ ~last'.raised)
               => /\ IdsOf(coll'.items) \cap IdsOf(coll.items) = {}
                  /\ \A k \in DOMAIN coll'.items : coll'.items[k].id[1] = gen' ]_vars

\* an edit removed the english study notes after the build, and a search still
\* returns them
C15_Witness ==
    /\ last.op = "edit"
    /\ last.slot = 5
    /\ store[5] = FileAbsent
    /\ ret.op = "search"
    /\ \E k \in DOMAIN ret.results :
           ret.results[k].metadata.file_path = FilePath(Slots[5].dir, Slots[5].name)

\* C16: get_stats never raises and changes no state; it returns the mapping of
\* total_documents, collection_name and embedding_model, total_documents being
\* the count of the collection, or, when the index store fails, a mapping with
\* the one key error
C16_GetStatsTotal ==
    [][ (ret'.op = "get_stats" /\ ret' # ret)
        => /\ UNCHANGED <<store, coll, gen, inst, last, edits, pc, mem>>
           /\ ~ret'.raised
           /\ IF HandleOk(ret'.inst)
              THEN /\ DOMAIN ret'.result =
                          {"total_documents", "collection_name", "embedding_model"}
                   /\ ret'.result.total_documents = Len(coll.items)
              ELSE DOMAIN ret'.result = {"error"} ]_vars

C16_Witness ==
    /\ ret.op = "get_stats"
    /\ ~HandleOk(ret.inst)
    /\ DOMAIN ret.result = {"error"}
    /\ \E i \in Instances : HandleOk(i) /\ Len(coll.items) >= 2

\* C17: context assembly stops at the first result whose available length is
\* 100 or less: that result is not included, no result ranked after it is
\* visited, and the included results are a prefix of the ranked results
C17_StopsAtFirstShortBudget ==
    ret.op = "get_relevant_context"
        => \A k \in DOMAIN ret.steps :
               ret.steps[k].available <= MinAvailable
                   => /\ ~ret.steps[k].included
                      /\ \A j \in DOMAIN ret.steps : j > k => ~ret.steps[j].included

\* the running length before step k of the loop
LengthBefore(steps, k) == IF k = 1 THEN 0 ELSE steps[k - 1].current_length

\* C18: no result is visited, and so no block started, once the running length
\* has reached max_context_length, and the running length never exceeds
\* max_context_length + 3
C18_RunningLengthBounded ==
    ret.op = "get_relevant_context"
        => \A k \in DOMAIN ret.steps :
               /\ LengthBefore(ret.steps, k) < ret.max_context_length
               /\ ret.steps[k].current_length <= ret.max_context_length + Len(S_ellipsis)
               /\ ret.steps[k].current_length =
                      LengthBefore(ret.steps, k)
                      + (IF ret.steps[k].included
                         THEN Len(ret.steps[k].source_info) + Len(ret.steps[k].content)
                              + ContextBuffer
                         ELSE 0)

\* the running length ends 3 above max_context_length and the results ranked
\* after that block are never visited
C18_Witness ==
    /\ ret.op = "get_relevant_context"
    /\ ret.steps # <<>>
    /\ ret.steps[Len(ret.steps)].current_length = ret.max_context_length + Len(S_ellipsis)
    /\ Len(ret.steps) < Len(ret.results)

\* the calls a build made to the embedding provider and to the collection's add
BuildCallsOf(calls) == SelectSeq(calls, LAMBDA c : c.fn \in {"embed_content", "add"})

\* C19: a build issues one embedding call per collected document, in
\* collection order, then exactly one add call for all of them, after the
\* embedding call of the last document; a build that collected no document
\* issues no embedding call and no add call
C19_EmbedSequentiallyThenOneAdd ==
    ( /\ last.op \in {"construct", "rebuild"}
      /\ \E k \in DOMAIN last.calls :
             last.calls[k].fn = "create_collection" /\ last.calls[k].ok )
        => LET n == Len(Collected[store][1].documents)
               made == BuildCallsOf(last.calls)
           IN  IF n = 0 THEN made = <<>>
               ELSE /\ Len(made) = n + 1
                    /\ \A k \in 1..n : made[k].fn = "embed_content" /\ made[k].arg = k
                    /\ made[n + 1].fn = "add"
                    /\ made[n + 1].arg = n

C19_Witness ==
    /\ last.op = "rebuild"
    /\ Len(BuildCallsOf(last.calls)) = 4
    /\ ~BuildCallsOf(last.calls)[2].ok
    /\ BuildCallsOf(last.calls)[3].ok
    /\ BuildCallsOf(last.calls)[4].fn = "add"
    /\ BuildCallsOf(last.calls)[4].ok

\* C20: search returns the hits of the collection's top-max_results query, one
\* result per hit and in the order of the hits, nearest first; it returns at
\* most max_results results
C20_SearchReturnsHitsInOrder ==
    (ret.op = "search" /\ ~ret.index_error)
        => LET res == CollectionQuery(coll.items, ret.query_embedding, ret.max_results,
                                      WhereClause(ret.subject_filter))
           IN  /\ Len(ret.results) = Len(res.documents)
               /\ Len(ret.results) <= ret.max_results
               /\ \A k \in DOMAIN ret.results :
                      /\ ret.results[k].content = res.documents[k]
                      /\ ret.results[k].metadata = res.metadatas[k]
                      /\ ret.results[k].similarity_score = 1 - res.distances[k]
               /\ \A j, k \in DOMAIN ret.results :
                      j < k => ret.results[j].similarity_score >= ret.results[k].similarity_score

\* the nearest hit is not the first document of the collection, and the
\* collection holds more matching documents than were asked for
C20_Witness ==
    /\ ret.op = "search"
    /\ Len(ret.results) = 2
    /\ ret.max_results = 2
    /\ Len(MatchingItems(coll.items, ret.subject_filter)) > 2
    /\ ret.results[1].similarity_score > ret.results[2].similarity_score
    /\ ret.results[1].content # coll.items[1].document

\* the distances of the hits behind the results of the search recorded in ret
HitDistances ==
    CollectionQuery(coll.items, ret.query_embedding, ret.max_results,
                    WhereClause(ret.subject_filter)).distances

\* C21: the similarity_score of every result is 1 minus the distance of its
\* hit; a result ranked earlier never scores lower than one ranked later; and
\* a hit whose distance lies in [0, 1] has a score in [0, 1]
C21_ScoreIsOneMinusDistance ==
    (ret.op = "search" /\ ~ret.index_error)
        => /\ DOMAIN ret.results = DOMAIN HitDistances
           /\ \A k \in DOMAIN ret.results :
                  /\ ret.results[k].similarity_score + HitDistances[k] = 1
                  /\ (HitDistances[k] >= 0 /\ HitDistances[k] <= 1)
                         => (ret.results[k].similarity_score >= 0
                             /\ ret.results[k].similarity_score <= 1)
                  /\ k > 1 => ret.results[k - 1].similarity_score
                                  >= ret.results[k].similarity_score

\* one hit at a distance within [0, 1] and a later one farther away
C21_Witness ==
    /\ ret.op = "search"
    /\ Len(ret.results) >= 2
    /\ HitDistances[1] \in {0, 1}
    /\ HitDistances[2] > 1
    /\ ret.results[2].similarity_score < 0

\* C22: when the embedding call for the query fails, search neither raises nor
\* reports an error: it queries the collection with the all-zero vector and
\* returns the hits the collection gives for it under the same filter and
\* max_results
C22_QueryEmbeddingFailureDegrades ==
    ( /\ ret.op = "search"
      /\ ret.query_embedding = ZeroVector
      /\ HandleOk(ret.inst) )
        => /\ ~ret.raised
           /\ ~ret.index_error
           /\ ret.results =
                  FormatResults(CollectionQuery(coll.items, ZeroVector, ret.max_results,
                                                WhereClause(ret.subject_filter)))

C22_Witness ==
    /\ ret.op = "search"
    /\ ret.query_embedding = ZeroVector
    /\ ret.subject_filter = S_math
    /\ Len(ret.results) = ret.max_results
    /\ ret.max_results >= 2
    /\ \E k \in DOMAIN coll.items : coll.items[k].metadata.subject = S_english

C24_PlanRunsEveryTask ==
    (ret.op = "execute_plan")
        => /\ ~ret.raised
           /\ Len(ret.results) = Len(ret.plan)
           /\ \A k \in DOMAIN ret.results :
                  (\/ ret.answers[k].llm1 = "raises"
                   \/ /\ ret.answers[k].llm1 \in ToolNames
                      /\ (ret.answers[k].tool = "raises" \/ ret.answers[k].llm2 = "raises"))
                      => ret.results[k].status = "error"

\* C25: the ids, documents, metadatas and embeddings handed to the bulk add
\* have the same length; position k of each belongs to one source file (the
\* metadata names its path, the document is its content, the vector is the
\* embedding of that content or the placeholder); the ids of one build are
\* pairwise distinct and none of them was drawn by an earlier build (which
\* drew at most one id per file)
C25_AddListsAligned ==
    (last.op \in {"construct", "rebuild"} /\ AddCallsOf(last.calls) # <<>>)
        => LET docs == Collected[store][gen]
               failing == {k \in DOMAIN EmbedCallsOf(last.calls) : ~EmbedCallsOf(last.calls)[k].ok}
               embeddings == GenerateEmbeddings(docs.documents, failing)
           IN  /\ Len(docs.documents) = Len(docs.ids)
               /\ Len(docs.metadatas) = Len(docs.ids)
               /\ Len(embeddings) = Len(docs.ids)
               /\ AddCallsOf(last.calls)[1].arg = Len(docs.ids)
               /\ \A k \in DOMAIN docs.ids :
                      \E s \in SlotIds :
                          /\ docs.metadatas[k].file_path = FilePath(Slots[s].dir, Slots[s].name)
                          /\ store[s].kind = "text"
                          /\ docs.documents[k] = store[s].text
                          /\ embeddings[k] \in {ZeroVector, EmbedContent(store[s].text)}
               /\ \A j, k \in DOMAIN docs.ids : j # k => docs.ids[j] # docs.ids[k]
               /\ \A k \in DOMAIN docs.ids :
                      /\ docs.ids[k] = Uuid4(gen, k)
                      /\ \A g \in 1..(gen - 1) : \A n \in SlotIds : docs.ids[k] # Uuid4(g, n)
               /\ AddCallsOf(last.calls)[1].ok
                      => /\ Len(coll.items) = Len(docs.ids)
                         /\ \A k \in DOMAIN docs.ids :
                                coll.items[k] = [id |-> docs.ids[k], document |-> docs.documents[k],
                                                 metadata |-> docs.metadatas[k],
                                                 embedding |-> embeddings[k]]

\* a second build has added three documents, one of them under the placeholder
C25_Witness ==
    /\ last.op = "rebuild"
    /\ gen >= 2
    /\ AddCallsOf(last.calls) # <<>>
    /\ AddCallsOf(last.calls)[1].ok
    /\ Len(coll.items) = 3
    /\ \E k \in DOMAIN coll.items : coll.items[k].embedding = ZeroVector

\* a "Source: ..." block for one of the results stands at the head of ctx
StartsWithBlock(ctx, results) ==
    \E k \in DOMAIN results :
        /\ Len(ctx) > Len(SourceInfo(results[k]))
        /\ SubSeq(ctx, 1, Len(SourceInfo(results[k]))) = SourceInfo(results[k])
        /\ ctx[Len(SourceInfo(results[k])) + 1] = "\n"

\* C26: get_relevant_context never returns the empty string: it returns the
\* sentinel or a string with at least one "Source: ..." block, and at least one
\* block whenever the search returned a result
C26_ContextNeverEmpty ==
    ret.op = "get_relevant_context"
        => /\ ret.context # <<>>
           /\ ret.results # <<>> => StartsWithBlock(ret.context, ret.results)

\* C26 amended: with no search result the sentinel is returned; with results,
\* the returned string is empty exactly when no visited result has an
\* available length above 100, and otherwise starts with a "Source: ..."
\* block; the first result is included whenever max_context_length exceeds
\* the length of its source line by more than 110
C26_EmptyOnlyWhenNoBlockFits ==
    ret.op = "get_relevant_context"
        => IF ret.results = <<>>
           THEN ret.context = S_sentinel
           ELSE LET fits == \E k \in DOMAIN ret.steps : ret.steps[k].available > MinAvailable
                IN  /\ (ret.context = <<>>) <=> ~fits
                    /\ fits => StartsWithBlock(ret.context, ret.results)
                    /\ ret.max_context_length
                           > Len(SourceInfo(ret.results[1])) + ContextBuffer + MinAvailable
                       => /\ ret.steps[1].included
                          /\ fits

\* the search returned results and none of them fits: the empty string
C26_Witness ==
    /\ ret.op = "get_relevant_context"
    /\ ret.results # <<>>
    /\ ret.steps # <<>>
    /\ ret.context = <<>>

\* C27: whenever get_relevant_context emits at least one block, the returned
\* string, separators included, is at most max_context_length characters long,
\* also when the running length ends above max_context_length
C27_OutputWithinMaxLength ==
    ( /\ ret.op = "get_relevant_context"
      /\ \E k \in DOMAIN ret.steps : ret.steps[k].included )
        => /\ Len(ret.context) <= ret.max_context_length
           /\ Len(ret.context) =
                  LET inc == SelectSeq(ret.steps, LAMBDA st : st.included)
                  IN  ret.steps[Len(ret.steps)].current_length
                      - Len(inc) * (ContextBuffer - 1) + (Len(inc) - 1) * Len(S_separator)

\* two blocks are emitted, the second cut, and the running length ends 3 above
\* max_context_length
C27_Witness ==
    /\ ret.op = "get_relevant_context"
    /\ Len(SelectSeq(ret.steps, LAMBDA st : st.included)) = 2
    /\ ret.steps[Len(ret.steps)].current_length = ret.max_context_length + Len(S_ellipsis)
    /\ Len(ret.context) < ret.max_context_length

\* C28: a build whose bulk insert failed leaves the collection existing and
\* empty; over an existing empty collection a construction loads it and builds
\* nothing, searches return no results and get_stats reports 0 documents, and
\* the collection gets documents only by a rebuild_index that returns normally
C28_FailedInsertLeavesEmptyIndex ==
    [][ /\ ( /\ last' # last
             /\ last'.op \in {"construct", "rebuild"}
             /\ \E k \in DOMAIN last'.calls : last'.calls[k].fn = "add" /\ ~last'.calls[k].ok )
            => /\ last'.raised
               /\ coll'.exists
               /\ coll'.items = <<>>
        /\ (coll.exists /\ coll.items = <<>>)
            => /\ (last'.op = "construct" /\ last' # last)
                      => /\ last'.existed
                         /\ BuildCalls(last'.calls) = {}
                         /\ coll' = coll
                         /\ inst'[last'.inst] = [constructed |-> TRUE, handle |-> coll.uid]
               /\ coll'.items # <<>>
                      => (last'.op = "rebuild" /\ last' # last /\ ~last'.raised)
               /\ (ret'.op = "search" /\ ret' # ret) => ret'.results = <<>>
               /\ (ret'.op = "get_stats" /\ ret' # ret /\ HandleOk(ret'.inst))
                      => ret'.result.total_documents = 0 ]_vars

\* the first construction's bulk insert failed over files that have content; a
\* later construction loaded the empty collection and its get_stats reports 0
C28_Witness ==
    /\ edits = 0
    /\ NonEmptyFiles(store) # {}
    /\ gen = 1
    /\ last.op = "construct"
    /\ last.existed
    /\ coll.exists /\ coll.items = <<>>
    /\ ret.op = "get_stats"
    /\ ret.inst = last.inst
    /\ ret.result = [total_documents |-> 0,
                     collection_name |-> "sat_knowledge",
                     embedding_model |-> "text-embedding-004 (Gemini)"]

\* the entries of the store history that carry the id
LogEntries(memory_id) == {k \in DOMAIN last.log : last.log[k].id = memory_id}

C30_CalculatorChecksCharacters ==
    ret.op = "calculator"
        => /\ ~ret.raised
           /\ ret.evaluated <=> (\A k \in DOMAIN ret.expression : ret.expression[k] \in AllowedChars)
           /\ ~ret.evaluated => ret.result.status = "error"
           /\ ret.eval_raised => ret.result.status = "error"
           /\ (ret.evaluated /\ ~ret.eval_raised) => ret.result.status = "success"
           /\ ret.evaluated
                  => /\ \A k \in DOMAIN ret.safe_expression :
                            ret.safe_expression[k] \in AllowedChars \ {"^"}
                     /\ Len(ret.safe_expression) =
                            Len(ret.expression)
                            + Cardinality({k \in DOMAIN ret.expression : ret.expression[k] = "^"})

\* 1^* passes the character test, is evaluated as 1*** and the SyntaxError comes back
\* as an error result
C30_Witness ==
    /\ ret.op = "calculator"
    /\ ret.expression = <<"1", "^", "*">>
    /\ ret.safe_expression = <<"1", "*", "*", "*">>
    /\ ret.eval_raised
    /\ ret.result.status = "error"

====
